---- MODULE Spec2Model ----
(***************************************************************************)
(* A model of the client-side logic of the stackcast web front-end:        *)
(*   - the balance reconciliation helpers (utils/stacksHelpers.ts, two     *)
(*     copies of which are kept in src/unnamed/part_010),                  *)
(*   - the transaction-confirmation poll,                                  *)
(*   - the order-book level upsert and the smart-order mutation's cache    *)
(*     handling (src/src/api/queries/orderbook.ts, src/unnamed/part_009).  *)
(*                                                                         *)
(* JavaScript exceptions are modelled by tagged results: Ok(v) is a normal *)
(* completion with value v, Throw(e) an abrupt one.  A try/catch is the    *)
(* operator Catch.                                                         *)
(***************************************************************************)
EXTENDS Integers, Sequences, FiniteSets, TLC

VARIABLES
    chain,         \* on-chain balance of each well-formed position id
    netReply,      \* how the read-only request for each position id is answered
    call,          \* the last helper call: its arguments, result and requests sent
    pollFn,        \* which copy of waitForTransactionConfirmation is running
    pollPc,        \* where the poll is: test, await, sleep, returned, thrown
    maxWaitMs,     \* the poll's maxWaitMs argument
    elapsed,       \* Date.now() - startTime
    lastReply,     \* the answer to the poll's latest status query
    pollRet,       \* the poll's completion
    levels,        \* one side of an order book: the bid or the ask levels
    bookSide,      \* BUY when `levels` are bids, SELL when they are asks
    lastUpsert,    \* the latest upsertOrderbookLevel call: arguments and result
    cache,         \* the query client's cache: an entry for each query key
    mutation,      \* the smart-order mutation: its variables and its response
    lastEvent,     \* the latest cache event: the handler run, the cache before it
    queryEnabled,  \* useApiQuery: options.enabled
    queryPhase,    \* useApiQuery: constructed, mounted (effects run) or unmounted
    requests,      \* the requests started by runFetch, oldest first
    controllerRef, \* controllerRef.current: a request's index, 0 for null
    microtasks,    \* aborted requests whose rejection has not been delivered yet
    queryData,     \* data: the request whose response it holds, 0 if none
    queryError,    \* error: the request that failed, 0 if none
    isLoading,     \* useApiQuery: isLoading
    isRefetching,\* useApiQuery: isRefetching
    walletPhase,\* WalletProvider: constructed, or ready once the mount effect ran
    storage,    \* the wallet library's local-storage session: null or the account
    adapter,    \* WalletProvider's state: isConnectedState, userData, isLoading, error
    pendingConnects,\* connect() requests the wallet has not answered yet
    openFlows,  \* transaction approval flows that are open
    sinceDisconnect,\* TRUE from a disconnectWallet until a connect succeeds
    walletCall, \* the latest adapter event: the operation, the state before, its result
    hashFn,     \* which computeOrderHash is called: clarity (part_011) or json (part_010)
    hashArgs,   \* the arguments of the order hash calls
    hashClock,  \* Date.now(), in ticks
    hashLog,    \* the computeOrderHash calls made: clock, completion, operations
    route,      \* the page that is mounted
    orderPage,  \* the order page's state and its handler's position
    portfolio,  \* the portfolio page's state
    apiFn,      \* the client function called: apiRequest or request
    apiOptions, \* the options argument of the call
    apiSent,    \* the HTTP requests sent by the call
    apiRet,     \* the call's completion, once settled
    hookName,   \* the query hook a component uses
    hookMarketId,\* the market id the hook is called with
    hookMounted,\* whether the component is mounted
    hookFetches,\* the requests the hook's query function has made
    saltClock,  \* Date.now(), in milliseconds
    saltOrders, \* the orders the client has prepared: parameters and salt
    signArgs,   \* the arguments of the signOrder call
    signPc,     \* where the promise executor of signOrder stands
    signPromise,\* the state of the promise signOrder returned
    signOpened, \* the signature requests opened
    previewView,\* the page whose preview effect runs: MarketDetail or Markets
    previewForm,\* the order form's size, price and orderType
    previewEdits,\* how many times the user changed the form
    debounce,   \* TRUE while the effect's 500 ms timer is armed
    previewRuns,\* the runs of previewOrder, oldest first: request body and status
    executionPreview,\* the run whose plan it holds, 0 for null
    previewWriter,\* the run that called setExecutionPreview last, 0 if none
    splitView,  \* the page that runs the deposit: MarketDetail or Markets
    balanceCheck,\* what checkIfNeedsSplit returned, Null before the check
    splitPc,    \* where onSubmitOrder is: idle, checked, sent, confirmed and the exits
    amountMicroSats,\* the amount given to split-position, -1 before the call
    positionBalance\* the on-chain balance of the checked position

helperVars == <<chain, netReply, call>>

pollVars == <<pollFn, pollPc, maxWaitMs, elapsed, lastReply, pollRet>>

bookVars == <<levels, bookSide, lastUpsert>>

cacheVars == <<cache, mutation, lastEvent>>

queryVars ==
    <<queryEnabled, queryPhase, requests, controllerRef, microtasks,
      queryData, queryError, isLoading, isRefetching>>

walletVars == <<walletPhase, storage, adapter, pendingConnects, openFlows, sinceDisconnect, walletCall>>

hashVars == <<hashFn, hashArgs, hashClock, hashLog>>

viewsVars == <<route, orderPage, portfolio>>

apiVars == <<apiFn, apiOptions, apiSent, apiRet>>

hooksVars == <<hookName, hookMarketId, hookMounted, hookFetches>>

saltVars == <<saltClock, saltOrders>>

signVars == <<signArgs, signPc, signPromise, signOpened>>

previewVars == <<previewView, previewForm, previewEdits, debounce, previewRuns, executionPreview, previewWriter>>

depositVars == <<splitView, balanceCheck, splitPc, amountMicroSats, positionBalance>>

vars == <<helperVars, pollVars, bookVars, cacheVars, queryVars, walletVars, hashVars, viewsVars, apiVars, hooksVars, saltVars, signVars, previewVars, depositVars>>

\* What the actions of one component leave alone
nonHelperVars == <<pollVars, bookVars, cacheVars, queryVars, walletVars, hashVars, viewsVars, apiVars, hooksVars, saltVars, signVars, previewVars, depositVars>>

nonPollVars == <<helperVars, bookVars, cacheVars, queryVars, walletVars, hashVars, viewsVars, apiVars, hooksVars, saltVars, signVars, previewVars, depositVars>>

nonBookVars == <<helperVars, pollVars, cacheVars, queryVars, walletVars, hashVars, viewsVars, apiVars, hooksVars, saltVars, signVars, previewVars, depositVars>>

nonCacheVars == <<helperVars, pollVars, bookVars, queryVars, walletVars, hashVars, viewsVars, apiVars, hooksVars, saltVars, signVars, previewVars, depositVars>>

nonQueryVars == <<helperVars, pollVars, bookVars, cacheVars, walletVars, hashVars, viewsVars, apiVars, hooksVars, saltVars, signVars, previewVars, depositVars>>

nonWalletVars == <<helperVars, pollVars, bookVars, cacheVars, queryVars, hashVars, viewsVars, apiVars, hooksVars, saltVars, signVars, previewVars, depositVars>>

nonHashVars == <<helperVars, pollVars, bookVars, cacheVars, queryVars, walletVars, viewsVars, apiVars, hooksVars, saltVars, signVars, previewVars, depositVars>>

nonViewsVars == <<helperVars, pollVars, bookVars, cacheVars, queryVars, walletVars, hashVars, apiVars, hooksVars, saltVars, signVars, previewVars, depositVars>>

nonApiVars == <<helperVars, pollVars, bookVars, cacheVars, queryVars, walletVars, hashVars, viewsVars, hooksVars, saltVars, signVars, previewVars, depositVars>>

nonHooksVars == <<helperVars, pollVars, bookVars, cacheVars, queryVars, walletVars, hashVars, viewsVars, apiVars, saltVars, signVars, previewVars, depositVars>>

nonSaltVars == <<helperVars, pollVars, bookVars, cacheVars, queryVars, walletVars, hashVars, viewsVars, apiVars, hooksVars, signVars, previewVars, depositVars>>

nonSignVars == <<helperVars, pollVars, bookVars, cacheVars, queryVars, walletVars, hashVars, viewsVars, apiVars, hooksVars, saltVars, previewVars, depositVars>>

nonPreviewVars == <<helperVars, pollVars, bookVars, cacheVars, queryVars, walletVars, hashVars, viewsVars, apiVars, hooksVars, saltVars, signVars, depositVars>>

nonDepositVars == <<helperVars, pollVars, bookVars, cacheVars, queryVars, walletVars, hashVars, viewsVars, apiVars, hooksVars, saltVars, signVars, previewVars>>

----------------------------------------------------------------------------
(* Completions *)

Ok(v) == [ok |-> TRUE, val |-> v]

Throw(e) == [ok |-> FALSE, err |-> e]

\* try { body } catch { handler }
Catch(body, handler) == IF body.ok THEN body ELSE handler

----------------------------------------------------------------------------
(* Balance reconciliation helpers: src/unnamed/part_010 *)

Sides == {"BUY", "SELL"}

Outcomes == {"yes", "no"}

\* 1 token = 1_000_000 atomic units
AtomicUnits == 1000000

\* An order size is a JavaScript number; the model takes the sizes
\* n / SizeDen for n in 0..MaxSizeUnits, so that size * 1_000_000 has a
\* fractional part for some of them.
MaxSizeUnits == 6

SizeDen == 3

SizeUnits == 0..MaxSizeUnits

\* Math.floor(size * 1_000_000) for size = n / SizeDen
FloorAtomic(n) == (n * AtomicUnits) \div SizeDen

\* Position ids: the 32-byte hex ids of a market, and a malformed one on
\* which hexToBytes throws.
WellFormedIds == {"YES_ID", "NO_ID"}

PositionIds == WellFormedIds \cup {"BAD_ID"}

NoOverride == "undefined"

Balances == {0, 1999999, 2000000, 3000000, 5000000}

\* The ways a read-only request ends: a decodable uint result, a transport
\* failure (fetch rejects), a non-2xx response, a result that does not
\* decode to a number.
ReadReplies == {"ok", "transport", "non2xx", "undecodable"}

hexToBytes(hex) ==
    IF hex \in WellFormedIds THEN Ok(hex) ELSE Throw("invalid hex")

\* The request of checkPositionBalance and the decoding of its answer,
\* given the network `net` = [chain, reply].
readBalance(net, positionId) ==
    CASE net.reply[positionId] = "ok" -> Ok(net.chain[positionId])
      [] net.reply[positionId] = "transport" -> Throw("Failed to fetch")
      [] net.reply[positionId] = "non2xx" -> Throw("Request failed")
      [] OTHER -> Throw("Cannot convert to a BigInt")

\* checkPositionBalance with the catch leaving out hexToBytes
checkPositionBalanceNarrowTry(net, positionId) ==
    LET bytes == hexToBytes(positionId)
    IN  IF ~bytes.ok
        THEN [ret |-> bytes, sent |-> <<>>]
        ELSE [ret |-> Catch(readBalance(net, positionId), Ok(0)),
              sent |-> <<positionId>>]

\* checkPositionBalance: [ret |-> completion, sent |-> requests sent]
checkPositionBalance(net, positionId) ==
    LET bytes == hexToBytes(positionId)
        body == IF bytes.ok THEN readBalance(net, positionId) ELSE bytes
    IN  [ret |-> Catch(body, Ok(0)),
         sent |-> IF bytes.ok THEN <<positionId>> ELSE <<>>]

\* checkIfNeedsSplit comparing with <= instead of <
checkIfNeedsSplitLeq(net, p) ==
    IF p.side = "BUY"
    THEN [ret |-> Ok([needsSplit |-> FALSE, requiredPositionId |-> "",
                      currentBalance |-> 0, requiredBalance |-> 0]),
          sent |-> <<>>]
    ELSE
      LET requiredPositionId ==
              IF p.requiredPositionId # NoOverride
              THEN p.requiredPositionId
              ELSE IF p.outcome = "yes" THEN p.yesPositionId
                                          ELSE p.noPositionId
          read == checkPositionBalance(net, requiredPositionId)
          requiredBalance == FloorAtomic(p.size)
      IN  IF ~read.ret.ok
          THEN read
          ELSE [ret |-> Ok([needsSplit |-> read.ret.val <= requiredBalance,
                            requiredPositionId |-> requiredPositionId,
                            currentBalance |-> read.ret.val,
                            requiredBalance |-> requiredBalance]),
                sent |-> read.sent]

\* checkIfNeedsSplit, first copy (lines 123-180): a BUY needs no position
\* tokens and returns without reading a balance.
checkIfNeedsSplit(net, p) ==
    IF p.side = "BUY"
    THEN [ret |-> Ok([needsSplit |-> FALSE, requiredPositionId |-> "",
                      currentBalance |-> 0, requiredBalance |-> 0]),
          sent |-> <<>>]
    ELSE
      LET requiredPositionId ==
              IF p.requiredPositionId # NoOverride
              THEN p.requiredPositionId
              ELSE IF p.outcome = "yes" THEN p.yesPositionId
                                          ELSE p.noPositionId
          read == checkPositionBalance(net, requiredPositionId)
          requiredBalance == FloorAtomic(p.size)
      IN  IF ~read.ret.ok
          THEN read
          ELSE [ret |-> Ok([needsSplit |-> read.ret.val < requiredBalance,
                            requiredPositionId |-> requiredPositionId,
                            currentBalance |-> read.ret.val,
                            requiredBalance |-> requiredBalance]),
                sent |-> read.sent]

\* checkIfNeedsSplit (second copy) checking the same outcome's position
\* for a BUY as well
checkIfNeedsSplitRpcSame(net, p) ==
    LET requiredPositionId ==
            IF p.outcome = "yes" THEN p.yesPositionId ELSE p.noPositionId
        read == checkPositionBalance(net, requiredPositionId)
        requiredBalance == FloorAtomic(p.size)
    IN  IF ~read.ret.ok
        THEN read
        ELSE [ret |-> Ok([needsSplit |-> read.ret.val < requiredBalance,
                          requiredPositionId |-> requiredPositionId,
                          currentBalance |-> read.ret.val,
                          requiredBalance |-> requiredBalance]),
              sent |-> read.sent]

\* checkIfNeedsSplit, second copy (lines 366-411): a BUY checks the position
\* of the opposite outcome, a SELL the position of the same outcome.
checkIfNeedsSplitRpc(net, p) ==
    LET requiredPositionId ==
            IF p.side = "BUY"
            THEN (IF p.outcome = "yes" THEN p.noPositionId
                                        ELSE p.yesPositionId)
            ELSE (IF p.outcome = "yes" THEN p.yesPositionId
                                        ELSE p.noPositionId)
        read == checkPositionBalance(net, requiredPositionId)
        requiredBalance == FloorAtomic(p.size)
    IN  IF ~read.ret.ok
        THEN read
        ELSE [ret |-> Ok([needsSplit |-> read.ret.val < requiredBalance,
                          requiredPositionId |-> requiredPositionId,
                          currentBalance |-> read.ret.val,
                          requiredBalance |-> requiredBalance]),
              sent |-> read.sent]

\* checkMergeablePairs returning the larger balance
checkMergeablePairsMax(net, p) ==
    LET yes == checkPositionBalance(net, p.yesPositionId)
        no == checkPositionBalance(net, p.noPositionId)
    IN  IF ~yes.ret.ok THEN [ret |-> yes.ret, sent |-> yes.sent \o no.sent]
        ELSE IF ~no.ret.ok THEN [ret |-> no.ret, sent |-> yes.sent \o no.sent]
        ELSE [ret |-> Ok([mergeableAmount |->
                              IF yes.ret.val > no.ret.val
                              THEN yes.ret.val ELSE no.ret.val,
                          yesBalance |-> yes.ret.val,
                          noBalance |-> no.ret.val]),
              sent |-> yes.sent \o no.sent]

\* checkMergeablePairs (both copies are the same): Promise.all over the two
\* balance reads, then the smaller of the two.
checkMergeablePairs(net, p) ==
    LET yes == checkPositionBalance(net, p.yesPositionId)
        no == checkPositionBalance(net, p.noPositionId)
    IN  IF ~yes.ret.ok THEN [ret |-> yes.ret, sent |-> yes.sent \o no.sent]
        ELSE IF ~no.ret.ok THEN [ret |-> no.ret, sent |-> yes.sent \o no.sent]
        ELSE [ret |-> Ok([mergeableAmount |->
                              IF yes.ret.val < no.ret.val
                              THEN yes.ret.val ELSE no.ret.val,
                          yesBalance |-> yes.ret.val,
                          noBalance |-> no.ret.val]),
              sent |-> yes.sent \o no.sent]

Network == [chain |-> chain, reply |-> netReply]

SplitParams ==
    [side : Sides, outcome : Outcomes, size : SizeUnits,
     yesPositionId : {"YES_ID", "BAD_ID"}, noPositionId : {"NO_ID", "BAD_ID"},
     requiredPositionId : PositionIds \cup {NoOverride}]

\* The second copy takes no requiredPositionId parameter.
SplitParamsRpc == {p \in SplitParams : p.requiredPositionId = NoOverride}

MergeParams ==
    [yesPositionId : {"YES_ID", "BAD_ID"}, noPositionId : {"NO_ID", "BAD_ID"}]

\* A helper call in progress: the function called and its arguments.
Pending(fn, params) == [fn |-> fn, params |-> params, done |-> FALSE]

\* A helper call that has settled: its completion and the read-only
\* requests it sent, in order.
Settled(c, r) ==
    [fn |-> c.fn, params |-> c.params, done |-> TRUE,
     ret |-> r.ret, sent |-> r.sent]

InitHelpers ==
    /\ chain \in [WellFormedIds -> Balances]
    /\ netReply \in [WellFormedIds -> ReadReplies]
    /\ call \in {Pending("checkPositionBalance", id) : id \in PositionIds}
            \cup {Pending("checkIfNeedsSplit", p) : p \in SplitParams}
            \cup {Pending("checkIfNeedsSplitRpc", p) : p \in SplitParamsRpc}
            \cup {Pending("checkMergeablePairs", p) : p \in MergeParams}

CallCheckPositionBalance ==
    /\ call.fn = "checkPositionBalance" /\ ~call.done
    /\ call' = Settled(call, checkPositionBalance(Network, call.params))
    /\ UNCHANGED <<chain, netReply, nonHelperVars>>

CallCheckIfNeedsSplit ==
    /\ call.fn = "checkIfNeedsSplit" /\ ~call.done
    /\ call' = Settled(call, checkIfNeedsSplit(Network, call.params))
    /\ UNCHANGED <<chain, netReply, nonHelperVars>>

CallCheckIfNeedsSplitRpc ==
    /\ call.fn = "checkIfNeedsSplitRpc" /\ ~call.done
    /\ call' = Settled(call, checkIfNeedsSplitRpc(Network, call.params))
    /\ UNCHANGED <<chain, netReply, nonHelperVars>>

CallCheckMergeablePairs ==
    /\ call.fn = "checkMergeablePairs" /\ ~call.done
    /\ call' = Settled(call, checkMergeablePairs(Network, call.params))
    /\ UNCHANGED <<chain, netReply, nonHelperVars>>

NextHelpers ==
    \/ CallCheckPositionBalance
    \/ CallCheckIfNeedsSplit
    \/ CallCheckIfNeedsSplitRpc
    \/ CallCheckMergeablePairs

----------------------------------------------------------------------------
(* Transaction-confirmation poll: src/unnamed/part_010 *)

\* const pollInterval = 2000
pollInterval == 2000

\* maxWaitMs: number = 120000
DefaultMaxWaitMs == 120000

\* Time passes in units of pollInterval / LatencyDiv; a status query that
\* settles takes up to MaxLatencyUnits of them, and a timer fires up to one
\* unit late.
LatencyDiv == 4

MaxLatencyUnits == 2

LatencyUnit == pollInterval \div LatencyDiv

Latencies == {k * LatencyUnit : k \in 0..MaxLatencyUnits}

MaxLatency == MaxLatencyUnits * LatencyUnit

TimerDelays == {pollInterval, pollInterval + LatencyUnit}

MaxWaits == {0, pollInterval + LatencyUnit, DefaultMaxWaitMs}

\* The clock of the model stops this long after the maximum wait.
ClockCap == maxWaitMs + 3 * pollInterval

TerminalStatuses == {"success", "abort_by_response", "abort_by_post_condition"}

TxStatuses ==
    TerminalStatuses \cup {"pending", "not_found", "dropped_replace_by_fee"}

\* How a status query settles: a 2xx response with a JSON body carrying
\* tx_status, a non-2xx response, or a transport failure.
StatusReplies ==
    {[kind |-> "json", status |-> st] : st \in TxStatuses}
    \cup {[kind |-> "http404"], [kind |-> "http500"], [kind |-> "transport"]}

NoReply == [kind |-> "none"]

TimeoutError == "Transaction confirmation timeout"

\* What the loop body does with a settled status query: return a result,
\* or await the setTimeout and go round again.
Return(result) == [next |-> "return", result |-> result]

Sleep == [next |-> "sleep"]

\* The loop body returning a failure for every status but success
pollBranchPendingFails(reply) ==
    LET tx == IF reply.kind = "json" THEN Ok(reply.status)
              ELSE Throw("apiRequest failed")
        body ==
            IF ~tx.ok THEN tx
            ELSE IF tx.val = "not_found" THEN Ok(Sleep)
            ELSE IF tx.val = "success"
                 THEN Ok(Return([success |-> TRUE, status |-> "success"]))
            ELSE Ok(Return([success |-> FALSE, status |-> tx.val]))
    IN  Catch(body, Ok(Sleep)).val

\* The loop body of the first copy (lines 28-55): apiRequest throws on any
\* non-2xx response and on a transport failure.
pollBranch(reply) ==
    LET tx == IF reply.kind = "json" THEN Ok(reply.status)
              ELSE Throw("apiRequest failed")
        body ==
            IF ~tx.ok THEN tx
            ELSE IF tx.val = "not_found" THEN Ok(Sleep)
            ELSE IF tx.val = "success"
                 THEN Ok(Return([success |-> TRUE, status |-> "success"]))
            ELSE IF tx.val \in {"abort_by_response", "abort_by_post_condition"}
                 THEN Ok(Return([success |-> FALSE, status |-> tx.val]))
            ELSE Ok(Sleep)
    IN  Catch(body, Ok(Sleep)).val

\* The loop body of the second copy (lines 281-312): a 404 is waited out,
\* any other non-2xx response is thrown and caught.
pollBranchRpc(reply) ==
    LET body ==
            IF reply.kind = "transport" THEN Throw("Failed to fetch")
            ELSE IF reply.kind = "http404" THEN Ok(Sleep)
            ELSE IF reply.kind = "http500" THEN Throw("API error")
            ELSE IF reply.status = "success"
                 THEN Ok(Return([success |-> TRUE, status |-> "success"]))
            ELSE IF reply.status \in
                        {"abort_by_response", "abort_by_post_condition"}
                 THEN Ok(Return([success |-> FALSE, status |-> reply.status]))
            ELSE Ok(Sleep)
    IN  Catch(body, Ok(Sleep)).val

InitPoll ==
    /\ pollFn \in {"api", "rpc"}
    /\ pollPc = "test"
    /\ maxWaitMs \in MaxWaits
    /\ elapsed = 0
    /\ lastReply = NoReply
    /\ pollRet = NoReply

\* while (Date.now() - startTime < maxWaitMs): send the status query
PollQuery ==
    /\ pollPc = "test"
    /\ elapsed < maxWaitMs
    /\ pollPc' = "await"
    /\ UNCHANGED <<pollFn, maxWaitMs, elapsed, lastReply, pollRet, nonPollVars>>

\* the loop condition fails: throw new Error("Transaction confirmation timeout")
PollTimeout ==
    /\ pollPc = "test"
    /\ ~(elapsed < maxWaitMs)
    /\ pollPc' = "thrown"
    /\ pollRet' = Throw(TimeoutError)
    /\ UNCHANGED <<pollFn, maxWaitMs, elapsed, lastReply, nonPollVars>>

\* the status query settles and the loop body runs up to its return or to
\* the setTimeout it awaits
PollReply ==
    /\ pollPc = "await"
    /\ \E reply \in StatusReplies, latency \in Latencies :
         LET branch == IF pollFn = "api" THEN pollBranch(reply)
                                         ELSE pollBranchRpc(reply)
         IN  /\ elapsed + latency <= ClockCap
             /\ elapsed' = elapsed + latency
             /\ lastReply' = reply
             /\ IF branch.next = "sleep"
                THEN pollPc' = "sleep" /\ pollRet' = pollRet
                ELSE pollPc' = "returned" /\ pollRet' = Ok(branch.result)
    /\ UNCHANGED <<pollFn, maxWaitMs, nonPollVars>>

\* time passes while the status query is unanswered; the await has no
\* timeout of its own
PollUnanswered ==
    /\ pollPc = "await"
    /\ elapsed + pollInterval <= ClockCap
    /\ elapsed' = elapsed + pollInterval
    /\ UNCHANGED <<pollFn, pollPc, maxWaitMs, lastReply, pollRet, nonPollVars>>

\* setTimeout(resolve, pollInterval) fires: back to the loop condition
PollWake ==
    /\ pollPc = "sleep"
    /\ \E delay \in TimerDelays : elapsed' = elapsed + delay
    /\ pollPc' = "test"
    /\ UNCHANGED <<pollFn, maxWaitMs, lastReply, pollRet, nonPollVars>>

NextPoll ==
    \/ PollQuery
    \/ PollTimeout
    \/ PollReply
    \/ PollUnanswered
    \/ PollWake

----------------------------------------------------------------------------
(* Order-book level upsert: src/src/api/queries/orderbook.ts *)

\* Prices and sizes are JavaScript numbers; the model takes small positive
\* integers (ticks and lots).
MaxPrice == 3

MaxSize == 2

\* The longest level list a server response starts the model with, and the
\* largest aggregate size a list grows to.
MaxLevels == 2

MaxTotalSize == 5

Prices == 1..MaxPrice

OrderSizes == 1..MaxSize

\* An optional field is the empty sequence when absent, <<v>> when present.
Absent == <<>>

Present(v) == <<v>>

\* x ?? d
Coalesce(x, d) == IF x = Absent THEN d ELSE x[1]

RECURSIVE SumSizes(_)
SumSizes(ls) == IF ls = <<>> THEN 0 ELSE Head(ls).size + SumSizes(Tail(ls))

\* next.findIndex((level) => level.price === price); 0 stands for -1
findIndex(ls, price) ==
    IF \E i \in 1..Len(ls) : ls[i].price = price
    THEN CHOOSE i \in 1..Len(ls) :
             /\ ls[i].price = price
             /\ \A j \in 1..(i - 1) : ls[j].price # price
    ELSE 0

\* (a, b) => (side === 'BUY' ? b.price - a.price : a.price - b.price)
compareLevels(side, a, b) ==
    IF side = "BUY" THEN b.price - a.price ELSE a.price - b.price

\* Array.prototype.sort with the comparator above: a stable sort, here an
\* insertion sort.
RECURSIVE insertLevel(_, _, _)
insertLevel(side, sorted, x) ==
    IF sorted = <<>> THEN <<x>>
    ELSE IF compareLevels(side, Head(sorted), x) <= 0
         THEN <<Head(sorted)>> \o insertLevel(side, Tail(sorted), x)
         ELSE <<x>> \o sorted

RECURSIVE sortLevels(_, _)
sortLevels(side, ls) ==
    IF ls = <<>> THEN <<>>
    ELSE insertLevel(side, sortLevels(side, SubSeq(ls, 1, Len(ls) - 1)),
                     ls[Len(ls)])

\* levels.map((level) => ({ price, size, orderCount }))
copyLevels(ls) ==
    [i \in 1..Len(ls) |->
        [price |-> ls[i].price, size |-> ls[i].size,
         orderCount |-> ls[i].orderCount]]

\* upsertOrderbookLevel without the final sort
upsertOrderbookLevelNoSort(ls, price, sizeDelta, side) ==
    LET next == copyLevels(ls)
        index == findIndex(next, price)
        updated ==
            IF index > 0
            THEN [next EXCEPT ![index] =
                     [price |-> price,
                      size |-> next[index].size + sizeDelta,
                      orderCount |->
                          Present(Coalesce(next[index].orderCount, 0) + 1)]]
            ELSE Append(next, [price |-> price, size |-> sizeDelta,
                               orderCount |-> Present(1)])
    IN  [levels |-> ls, next |-> updated]

\* upsertOrderbookLevel overwriting the size of an existing level
upsertOrderbookLevelOverwrite(ls, price, sizeDelta, side) ==
    LET next == copyLevels(ls)
        index == findIndex(next, price)
        updated ==
            IF index > 0
            THEN [next EXCEPT ![index] =
                     [price |-> price,
                      size |-> sizeDelta,
                      orderCount |->
                          Present(Coalesce(next[index].orderCount, 0) + 1)]]
            ELSE Append(next, [price |-> price, size |-> sizeDelta,
                               orderCount |-> Present(1)])
    IN  [levels |-> ls, next |-> sortLevels(side, updated)]

\* upsertOrderbookLevel: [levels |-> the argument list after the call,
\* next |-> the list returned].  The function works on a copy, so the
\* argument list is as it was.
upsertOrderbookLevel(ls, price, sizeDelta, side) ==
    LET next == copyLevels(ls)
        index == findIndex(next, price)
        updated ==
            IF index > 0
            THEN [next EXCEPT ![index] =
                     [price |-> price,
                      size |-> next[index].size + sizeDelta,
                      orderCount |->
                          Present(Coalesce(next[index].orderCount, 0) + 1)]]
            ELSE Append(next, [price |-> price, size |-> sizeDelta,
                               orderCount |-> Present(1)])
    IN  [levels |-> ls, next |-> sortLevels(side, updated)]

\* A level as a server response carries it
ServerLevels ==
    [price : Prices, size : OrderSizes, orderCount : {Absent, Present(1)}]

\* The level lists of a server response: one level per price
RECURSIVE ListsOfLength(_)
ListsOfLength(n) ==
    IF n = 0 THEN {<<>>}
    ELSE {Append(ls, l) : ls \in ListsOfLength(n - 1), l \in ServerLevels}

ServerLevelLists ==
    {ls \in UNION {ListsOfLength(n) : n \in 0..MaxLevels} :
        \A i, j \in 1..Len(ls) : i # j => ls[i].price # ls[j].price}

NoUpsert == [called |-> FALSE]

InitBook ==
    /\ bookSide \in Sides
    /\ levels \in ServerLevelLists
    /\ lastUpsert = NoUpsert

\* One upsert of an order's price and size into the list
Upsert ==
    \E price \in Prices, sizeDelta \in OrderSizes :
        LET r == upsertOrderbookLevel(levels, price, sizeDelta, bookSide)
        IN  /\ SumSizes(levels) + sizeDelta <= MaxTotalSize
            /\ levels' = r.next
            /\ lastUpsert' = [called |-> TRUE, input |-> levels,
                              price |-> price, sizeDelta |-> sizeDelta,
                              inputAfter |-> r.levels, output |-> r.next]
            /\ UNCHANGED <<bookSide, nonBookVars>>

NextBook == Upsert

----------------------------------------------------------------------------
(* Query cache and the smart-order mutation's onSuccess:                   *)
(* src/src/api/queries/orderbook.ts, src/unnamed/part_009,                 *)
(* src/src/api/queries/markets.ts                                          *)

Markets == {"m1", "m2"}

\* Query keys are arrays of strings (the trades limit 20 and the chart
\* interval included).
orderbookKeysAll == <<"orderbook">>

orderbookKeysMarket(marketId) == orderbookKeysAll \o <<marketId>>

orderbookKeysTrades(marketId) == orderbookKeysMarket(marketId) \o <<"trades">>

marketKeysAll == <<"markets">>

marketKeysList == marketKeysAll \o <<"list">>

marketKeysDetail(id) == marketKeysAll \o <<"detail">> \o <<id>>

marketKeysStats(id) == marketKeysDetail(id) \o <<"stats">>

marketKeysPriceHistory(id, interval) ==
    marketKeysDetail(id) \o <<"price-history", interval>>

\* The keys under which the hooks of one market cache their data:
\* useOrderbook without and with a positionId, useTrades, useMarket,
\* useMarketStats, usePriceHistory.
MarketQueryKeys(m) ==
    {orderbookKeysMarket(m),
     orderbookKeysMarket(m) \o <<"YES_ID">>,
     orderbookKeysTrades(m) \o <<"20">>,
     marketKeysDetail(m),
     marketKeysStats(m),
     marketKeysPriceHistory(m, "1h")}

QueryKeys == UNION {MarketQueryKeys(m) : m \in Markets} \cup {marketKeysList}

\* Partial matching of a query key filter: the filter is a prefix of the key
IsPrefix(prefix, key) ==
    /\ Len(prefix) <= Len(key)
    /\ SubSeq(key, 1, Len(prefix)) = prefix

\* Cache entries: a query that is not in the cache has undefined data
Undefined == [kind |-> "undefined"]

NotCached == [cached |-> FALSE, data |-> Undefined, invalidated |-> FALSE]

Entry(data, invalidated) ==
    [cached |-> TRUE, data |-> data, invalidated |-> invalidated]

\* queryClient.setQueryData(key, updater) with the value the updater
\* returned: undefined writes nothing; any other value becomes the query's
\* data, and the query is fresh again.
setQueryData(c, key, data) ==
    IF data = Undefined THEN c
    ELSE [c EXCEPT ![key] = Entry(data, FALSE)]

\* queryClient.invalidateQueries({ queryKey }): every cached query whose key
\* starts with queryKey is marked invalidated
invalidateQueries(c, queryKey) ==
    [k \in DOMAIN c |->
        IF c[k].cached /\ IsPrefix(queryKey, k)
        THEN [c[k] EXCEPT !.invalidated = TRUE]
        ELSE c[k]]

\* A routing that sends every order to the book of its own outcome
determineOrderbookKeyOwnBook(side, outcome) == outcome

\* type OrderbookKey and determineOrderbookKey
determineOrderbookKey(side, outcome) ==
    LET routesToNoBook ==
            \/ (side = "BUY" /\ outcome = "yes")
            \/ (side = "SELL" /\ outcome = "no")
    IN  IF routesToNoBook THEN "no" ELSE "yes"

\* The updater passed to setQueryData (lines 101-128)
orderbookUpdater(previous, order) ==
    IF previous = Undefined \/ previous.orderbooks = Absent
    THEN previous
    ELSE
      LET books == previous.orderbooks[1]
          outcome == IF order.outcome = "yes" THEN "yes" ELSE "no"
          bookKey == determineOrderbookKey(order.side, outcome)
      IN  IF bookKey \notin DOMAIN books
          THEN previous
          ELSE
            LET currentBook == books[bookKey]
                updatedLevels ==
                    upsertOrderbookLevel(
                        IF order.side = "BUY" THEN currentBook.bids
                                              ELSE currentBook.asks,
                        order.price, order.size, order.side).next
            IN  [previous EXCEPT
                    !.orderbooks = Present(
                        [books EXCEPT ![bookKey] =
                            [bids |-> IF order.side = "BUY" THEN updatedLevels
                                      ELSE currentBook.bids,
                             asks |-> IF order.side = "SELL" THEN updatedLevels
                                      ELSE currentBook.asks]]),
                    !.timestamp = "Date.now()"]

SetQueryDataOp(key, wrote) ==
    [op |-> "setQueryData", key |-> key, wrote |-> wrote]

InvalidateOp(key) == [op |-> "invalidateQueries", key |-> key, wrote |-> FALSE]

\* An onSuccess that invalidates first and writes the order book afterwards
placeSmartOrderOnSuccessInvalidateFirst(c, data, variables) ==
    LET key == orderbookKeysMarket(variables.marketId)
        hasOrder == data.order # Absent
        c1 == invalidateQueries(c, orderbookKeysMarket(variables.marketId))
        c2 == invalidateQueries(c1, marketKeysStats(variables.marketId))
        c3 == invalidateQueries(c2, orderbookKeysTrades(variables.marketId))
        updated == IF hasOrder
                   THEN orderbookUpdater(c3[key].data, data.order[1])
                   ELSE Undefined
        c4 == IF hasOrder THEN setQueryData(c3, key, updated) ELSE c3
    IN  [cache |-> c4,
         log |-> <<InvalidateOp(orderbookKeysMarket(variables.marketId)),
                   InvalidateOp(marketKeysStats(variables.marketId)),
                   InvalidateOp(orderbookKeysTrades(variables.marketId))>>
                 \o (IF hasOrder
                     THEN <<SetQueryDataOp(key, updated # Undefined)>>
                     ELSE <<>>)]

\* usePlaceSmartOrder's onSuccess (data, variables), orderbook.ts: the
\* optimistic update of the cached order book, then the three invalidations.
\* [cache |-> the cache afterwards, log |-> the client calls made, in order]
placeSmartOrderOnSuccess(c, data, variables) ==
    LET key == orderbookKeysMarket(variables.marketId)
        hasOrder == data.order # Absent
        updated == IF hasOrder
                   THEN orderbookUpdater(c[key].data, data.order[1])
                   ELSE Undefined
        c1 == IF hasOrder THEN setQueryData(c, key, updated) ELSE c
        c2 == invalidateQueries(c1, orderbookKeysMarket(variables.marketId))
        c3 == invalidateQueries(c2, marketKeysStats(variables.marketId))
        c4 == invalidateQueries(c3, orderbookKeysTrades(variables.marketId))
    IN  [cache |-> c4,
         log |-> (IF hasOrder
                  THEN <<SetQueryDataOp(key, updated # Undefined)>>
                  ELSE <<>>)
                 \o <<InvalidateOp(orderbookKeysMarket(variables.marketId)),
                      InvalidateOp(marketKeysStats(variables.marketId)),
                      InvalidateOp(orderbookKeysTrades(variables.marketId))>>]

\* An onSuccess that invalidates the order books of every market, as
\* useCancelOrder does
placeSmartOrderOnSuccessAllBooks(c, data, variables) ==
    LET c1 == invalidateQueries(c, orderbookKeysAll)
        c2 == invalidateQueries(c1, marketKeysStats(variables.marketId))
    IN  [cache |-> c2,
         log |-> <<InvalidateOp(orderbookKeysAll),
                   InvalidateOp(marketKeysStats(variables.marketId))>>]

\* usePlaceSmartOrder's onSuccess (_, variables), src/unnamed/part_009: the
\* invalidation of the market's order book and stats
placeSmartOrderOnSuccessOrders(c, data, variables) ==
    LET c1 == invalidateQueries(c, orderbookKeysMarket(variables.marketId))
        c2 == invalidateQueries(c1, marketKeysStats(variables.marketId))
    IN  [cache |-> c2,
         log |-> <<InvalidateOp(orderbookKeysMarket(variables.marketId)),
                   InvalidateOp(marketKeysStats(variables.marketId))>>]

\* SmartOrderResponse.order: outcome is a string of the server's choosing
ResponseOutcomes == Outcomes \cup {"unknown"}

RestingOrders ==
    [side : Sides, outcome : ResponseOutcomes,
     price : Prices, size : OrderSizes]

SmartOrderResponses ==
    [order : {Absent} \cup {Present(o) : o \in RestingOrders}]

\* apiRequest resolves with the response, or throws on a transport failure
\* and on a status outside 2xx
MutationResults ==
    {Ok(r) : r \in SmartOrderResponses} \cup {Throw("ApiError")}

\* What the server sends for a query
ServerData == [kind |-> "data"]

Level(price, orderCount) ==
    [price |-> price, size |-> 1, orderCount |-> orderCount]

EmptyBook == [bids |-> <<>>, asks |-> <<>>]

QuotedBook ==
    [bids |-> <<Level(1, Present(1))>>,
     asks |-> <<Level(2, Absent), Level(MaxPrice, Present(1))>>]

OrderbookResponse(orderbooks) ==
    [kind |-> "response", orderbooks |-> orderbooks, timestamp |-> "server"]

\* OrderbookResponse with both books, with the YES book only, without books
OrderbookResponses ==
    {OrderbookResponse(Present([yes |-> y, no |-> n])) :
        y \in {EmptyBook, QuotedBook}, n \in {EmptyBook, QuotedBook}}
    \cup {OrderbookResponse(Present([k \in {"yes"} |-> QuotedBook])),
          OrderbookResponse(Absent)}

\* The cache entry of one of a market's queries: the order-book query holds
\* `book` (or is not cached); the market's other queries are cached or not,
\* together.
MarketEntry(m, k, book, others, stale) ==
    IF k = orderbookKeysMarket(m)
    THEN IF book = Undefined THEN NotCached ELSE Entry(book, stale)
    ELSE IF others THEN Entry(ServerData, stale) ELSE NotCached

NoEvent ==
    [type |-> "none", hook |-> "none", marketId |-> "none",
     data |-> [order |-> Absent], before |-> <<>>, log |-> <<>>]

\* A smart order has been sent for one market; the queries of that market and
\* of the other one are in the cache, or not.
InitCache ==
    /\ \E m \in Markets, result \in MutationResults :
           mutation = [variables |-> [marketId |-> m], result |-> result,
                       settled |-> FALSE]
    /\ \E book \in OrderbookResponses \cup {Undefined},
          otherBook \in {OrderbookResponse(
                             Present([yes |-> QuotedBook, no |-> QuotedBook])),
                         Undefined},
          others, stale, otherStale \in BOOLEAN :
           LET m == mutation.variables.marketId
               o == CHOOSE x \in Markets : x # m
           IN  cache =
                   [k \in QueryKeys |->
                       IF k = marketKeysList THEN Entry(ServerData, FALSE)
                       ELSE IF k \in MarketQueryKeys(m)
                            THEN MarketEntry(m, k, book, others, stale)
                            ELSE MarketEntry(o, k, otherBook, TRUE,
                                             otherStale)]
    /\ lastEvent = NoEvent

\* The mutation succeeds and the hook of orderbook.ts runs its onSuccess
PlaceSmartOrderSuccess ==
    /\ ~mutation.settled
    /\ mutation.result.ok
    /\ LET r == placeSmartOrderOnSuccess(cache, mutation.result.val,
                                         mutation.variables)
       IN  /\ cache' = r.cache
           /\ lastEvent' = [type |-> "onSuccess", hook |-> "orderbook",
                            marketId |-> mutation.variables.marketId,
                            data |-> mutation.result.val,
                            before |-> cache, log |-> r.log]
    /\ mutation' = [mutation EXCEPT !.settled = TRUE]
    /\ UNCHANGED nonCacheVars

\* The mutation succeeds and the hook of part_009 runs its onSuccess
PlaceSmartOrderSuccessOrders ==
    /\ ~mutation.settled
    /\ mutation.result.ok
    /\ LET r == placeSmartOrderOnSuccessOrders(cache, mutation.result.val,
                                               mutation.variables)
       IN  /\ cache' = r.cache
           /\ lastEvent' = [type |-> "onSuccess", hook |-> "orders",
                            marketId |-> mutation.variables.marketId,
                            data |-> mutation.result.val,
                            before |-> cache, log |-> r.log]
    /\ mutation' = [mutation EXCEPT !.settled = TRUE]
    /\ UNCHANGED nonCacheVars

\* The mutation fails: neither hook has an onError, the cache stays
PlaceSmartOrderError ==
    /\ ~mutation.settled
    /\ ~mutation.result.ok
    /\ mutation' = [mutation EXCEPT !.settled = TRUE]
    /\ lastEvent' = [NoEvent EXCEPT !.type = "onError",
                        !.marketId = mutation.variables.marketId,
                        !.before = cache]
    /\ UNCHANGED <<cache, nonCacheVars>>

\* The refetch of an invalidated order-book query arrives with the server's
\* book
RefetchOrderbook ==
    \E m \in Markets :
        LET key == orderbookKeysMarket(m)
            data == OrderbookResponse(
                        Present([yes |-> QuotedBook, no |-> EmptyBook]))
        IN  /\ cache[key].cached
            /\ cache[key].invalidated
            /\ cache' = [cache EXCEPT ![key] = Entry(data, FALSE)]
            /\ lastEvent' = [NoEvent EXCEPT !.type = "refetch",
                                !.marketId = m, !.before = cache]
            /\ UNCHANGED <<mutation, nonCacheVars>>

NextCache ==
    \/ PlaceSmartOrderSuccess
    \/ PlaceSmartOrderSuccessOrders
    \/ PlaceSmartOrderError
    \/ RefetchOrderbook

----------------------------------------------------------------------------
(* useApiQuery: src/unnamed/part_006, with the fetchers of                 *)
(* src/unnamed/part_007, which hand the abort signal to fetch()            *)

MaxRequests == 3

NoRequest == 0

Request(status) == [status |-> status]

InFlight == {i \in 1..Len(requests) : requests[i].status = "inflight"}

\* controllerRef.current?.abort(): the request's fetch() rejects with an
\* AbortError, which reaches the awaiting runFetch in a later microtask
abort(reqs, ref) ==
    IF ref # NoRequest /\ reqs[ref].status = "inflight"
    THEN [reqs EXCEPT ![ref] = Request("aborting")]
    ELSE reqs

abortQueue(reqs, ref) ==
    IF ref # NoRequest /\ reqs[ref].status = "inflight"
    THEN Append(microtasks, ref)
    ELSE microtasks

\* runFetch(isInitial) up to its await
runFetch(isInitial) ==
    /\ queryEnabled
    /\ Len(requests) < MaxRequests
    /\ requests' = Append(abort(requests, controllerRef), Request("inflight"))
    /\ microtasks' = abortQueue(requests, controllerRef)
    /\ controllerRef' = Len(requests) + 1
    /\ isLoading' = IF isInitial THEN TRUE ELSE isLoading
    /\ isRefetching' = IF isInitial THEN isRefetching ELSE TRUE
    /\ queryError' = NoRequest
    /\ UNCHANGED <<queryEnabled, queryData>>

\* runFetch's finally block; a state setter of an unmounted component does
\* nothing, the ref is written all the same
runFetchFinally ==
    /\ controllerRef' = NoRequest
    /\ isLoading' = IF queryPhase = "mounted" THEN FALSE ELSE isLoading
    /\ isRefetching' = IF queryPhase = "mounted" THEN FALSE ELSE isRefetching

InitQuery ==
    /\ queryEnabled \in BOOLEAN
    /\ queryPhase = "constructed"
    /\ requests = <<>>
    /\ controllerRef = NoRequest
    /\ microtasks = <<>>
    /\ queryData = NoRequest
    /\ queryError = NoRequest
    /\ isLoading = queryEnabled
    /\ isRefetching = FALSE

\* The first effect after mounting: a disabled query only clears isLoading
MountEffect ==
    /\ queryPhase = "constructed"
    /\ queryPhase' = "mounted"
    /\ IF queryEnabled
       THEN runFetch(TRUE)
       ELSE /\ isLoading' = FALSE
            /\ UNCHANGED <<queryEnabled, requests, controllerRef, microtasks,
                           queryData, queryError, isRefetching>>
    /\ UNCHANGED nonQueryVars

\* key or a watched value changes: the effect's cleanup aborts, the effect
\* runs again
ParamChange ==
    /\ queryPhase = "mounted"
    /\ microtasks = <<>>
    /\ runFetch(TRUE)
    /\ UNCHANGED <<queryPhase, nonQueryVars>>

\* The refresh interval fires
PollTick ==
    /\ queryPhase = "mounted"
    /\ microtasks = <<>>
    /\ runFetch(FALSE)
    /\ UNCHANGED <<queryPhase, nonQueryVars>>

\* The caller invokes refetch()
Refetch ==
    /\ queryPhase = "mounted"
    /\ microtasks = <<>>
    /\ runFetch(FALSE)
    /\ UNCHANGED <<queryPhase, nonQueryVars>>

\* The component unmounts: the effect's cleanup aborts controllerRef.current
Unmount ==
    /\ queryPhase = "mounted"
    /\ microtasks = <<>>
    /\ queryPhase' = "unmounted"
    /\ requests' = abort(requests, controllerRef)
    /\ microtasks' = abortQueue(requests, controllerRef)
    /\ UNCHANGED <<queryEnabled, controllerRef, queryData, queryError,
                   isLoading, isRefetching, nonQueryVars>>

\* The rejection of an aborted request reaches runFetch: the catch block
\* skips an AbortError, the finally block runs
AbortSettle ==
    /\ microtasks # <<>>
    /\ requests' = [requests EXCEPT ![Head(microtasks)] = Request("aborted")]
    /\ microtasks' = Tail(microtasks)
    /\ runFetchFinally
    /\ UNCHANGED <<queryEnabled, queryPhase, queryData, queryError,
                   nonQueryVars>>

\* The response of a request arrives: setData, then the finally block
FetchResolve ==
    \E i \in InFlight :
        /\ microtasks = <<>>
        /\ requests' = [requests EXCEPT ![i] = Request("resolved")]
        /\ queryData' = IF queryPhase = "mounted" THEN i ELSE queryData
        /\ runFetchFinally
        /\ UNCHANGED <<queryEnabled, queryPhase, microtasks, queryError,
                       nonQueryVars>>

\* A request fails (transport failure, status outside 2xx): setError, then
\* the finally block
FetchReject ==
    \E i \in InFlight :
        /\ microtasks = <<>>
        /\ requests' = [requests EXCEPT ![i] = Request("rejected")]
        /\ queryError' = IF queryPhase = "mounted" THEN i ELSE queryError
        /\ runFetchFinally
        /\ UNCHANGED <<queryEnabled, queryPhase, microtasks, queryData,
                       nonQueryVars>>

NextQuery ==
    \/ MountEffect
    \/ ParamChange
    \/ PollTick
    \/ Refetch
    \/ Unmount
    \/ AbortSettle
    \/ FetchResolve
    \/ FetchReject

----------------------------------------------------------------------------
(* Wallet adapter: src/src/contexts/WalletContext.tsx *)

MaxPending == 1

Null == "null"

Accounts == {"account1", "account2"}

TxIds == {"tx1", "tx2"}

NotConnected == Throw("Wallet not connected")

UserCancelled == Throw("User cancelled transaction")

\* The promise of an operation that waits for the wallet
Awaiting == [ok |-> FALSE, err |-> "pending"]

\* What the wallet answers to stx_getAccounts and to stx_signMessage
AccountAnswers == {Ok("accounts"), Throw("wallet error")}

SignAnswers ==
    {Ok([signature |-> "signature", publicKey |-> "publicKey"]),
     Throw("wallet error")}

\* isConnected() of the wallet library
isConnected(stor) == stor # Null

\* [state |-> the adapter state after the call, ret |-> the promise's
\* settlement, sent |-> the requests made to the wallet]
Outcome(state, ret, sent) == [state |-> state, ret |-> ret, sent |-> sent]

\* A connectWallet that does not look at isConnected()
connectWalletAlways(st, stor) ==
    Outcome([st EXCEPT !.isLoading = TRUE, !.error = Null],
            Awaiting, <<"connect">>)

\* connectWallet up to its await
connectWallet(st, stor) ==
    LET begun == [st EXCEPT !.isLoading = TRUE, !.error = Null]
    IN  IF isConnected(stor)
        THEN Outcome([begun EXCEPT !.isLoading = FALSE], Ok("undefined"), <<>>)
        ELSE Outcome(begun, Awaiting, <<"connect">>)

\* A connectSettled that stores the account without setting the flag
connectSettledDataOnly(st, response) ==
    IF response.ok
    THEN [st EXCEPT !.userData = response.val, !.isLoading = FALSE]
    ELSE [st EXCEPT !.error = response.err, !.isLoading = FALSE]

\* connectWallet after connect() settled: the rest of the try block, or the
\* catch block, then the finally block
connectSettled(st, response) ==
    IF response.ok
    THEN [st EXCEPT !.isConnectedState = TRUE, !.userData = response.val,
                    !.isLoading = FALSE]
    ELSE [st EXCEPT !.error = response.err, !.isLoading = FALSE]

\* A disconnectWallet that keeps the adapter state
disconnectWalletKeep(st) == st

disconnectWallet(st) ==
    [st EXCEPT !.isConnectedState = FALSE, !.userData = Null, !.error = Null]

\* A getAccount without the connection guard
getAccountUnguarded(st, answer) == Outcome(st, answer, <<"stx_getAccounts">>)

getAccount(st, answer) ==
    IF ~st.isConnectedState
    THEN Outcome(st, NotConnected, <<>>)
    ELSE Outcome(st, answer, <<"stx_getAccounts">>)

signMessage(st, answer) ==
    IF ~st.isConnectedState
    THEN Outcome(st, NotConnected, <<>>)
    ELSE Outcome(st, answer, <<"stx_signMessage">>)

\* callContract up to the return of openContractCall, which opens the
\* approval flow or throws
callContract(st, opened) ==
    IF ~st.isConnectedState
    THEN Outcome(st, NotConnected, <<>>)
    ELSE IF opened.ok
         THEN Outcome([st EXCEPT !.isLoading = TRUE, !.error = Null],
                      Awaiting, <<"openContractCall">>)
         ELSE Outcome([st EXCEPT !.isLoading = FALSE, !.error = opened.err],
                      Throw(opened.err), <<"openContractCall">>)

\* The onFinish callback callContract hands to openContractCall
onFinish(st, txId) ==
    Outcome([st EXCEPT !.isLoading = FALSE], Ok([txid |-> txId]), <<>>)

\* An onCancel that resolves
onCancelResolves(st) ==
    Outcome([st EXCEPT !.isLoading = FALSE], Ok([txid |-> Null]), <<>>)

\* The onCancel callback callContract hands to openContractCall
onCancel(st) ==
    Outcome([st EXCEPT !.isLoading = FALSE], UserCancelled, <<>>)

\* readContract, with the answer of fetchCallReadOnlyFunction
readContract(st, answer) ==
    IF answer.ok
    THEN Outcome([st EXCEPT !.isLoading = FALSE, !.error = Null],
                 answer, <<>>)
    ELSE Outcome([st EXCEPT !.isLoading = FALSE, !.error = answer.err],
                 answer, <<>>)

NoWalletCall ==
    [op |-> "none", before |-> Null, ret |-> Awaiting, sent |-> <<>>]

WalletCall(op, outcome) ==
    [op |-> op, before |-> adapter, ret |-> outcome.ret,
     sent |-> outcome.sent]

\* The provider is constructed; the library's session is there or not
InitWallet ==
    /\ walletPhase = "constructed"
    /\ storage \in {Null} \cup Accounts
    /\ adapter = [isConnectedState |-> FALSE, userData |-> Null,
                  isLoading |-> FALSE, error |-> Null]
    /\ pendingConnects = 0
    /\ openFlows = 0
    /\ sinceDisconnect = FALSE
    /\ walletCall = NoWalletCall

\* The mount effect: initializeWallet
InitializeWallet ==
    /\ walletPhase = "constructed"
    /\ walletPhase' = "ready"
    /\ adapter' = [adapter EXCEPT
                      !.isConnectedState = isConnected(storage),
                      !.userData = IF isConnected(storage) THEN storage
                                   ELSE adapter.userData]
    /\ walletCall' = [NoWalletCall EXCEPT !.op = "initializeWallet",
                                          !.before = adapter]
    /\ UNCHANGED <<storage, pendingConnects, openFlows, sinceDisconnect,
                   nonWalletVars>>

ConnectWallet ==
    LET r == connectWallet(adapter, storage)
    IN  /\ walletPhase = "ready"
        /\ r.sent # <<>> => pendingConnects < MaxPending
        /\ adapter' = r.state
        /\ pendingConnects' = pendingConnects + Len(r.sent)
        /\ walletCall' = WalletCall("connectWallet", r)
        /\ UNCHANGED <<walletPhase, storage, openFlows, sinceDisconnect,
                       nonWalletVars>>

\* The user picks an account: connect() stores it and resolves
ConnectResolve ==
    \E account \in Accounts :
        /\ pendingConnects > 0
        /\ pendingConnects' = pendingConnects - 1
        /\ storage' = account
        /\ adapter' = connectSettled(adapter, Ok(account))
        /\ sinceDisconnect' = FALSE
        /\ walletCall' = [op |-> "connectWallet.resolved", before |-> adapter,
                          ret |-> Ok("undefined"), sent |-> <<>>]
        /\ UNCHANGED <<walletPhase, openFlows, nonWalletVars>>

\* The user dismisses the wallet selection, or no wallet is installed
ConnectReject ==
    /\ pendingConnects > 0
    /\ pendingConnects' = pendingConnects - 1
    /\ adapter' = connectSettled(adapter, Throw("connect failed"))
    /\ walletCall' = [op |-> "connectWallet.rejected", before |-> adapter,
                      ret |-> Ok("undefined"), sent |-> <<>>]
    /\ UNCHANGED <<walletPhase, storage, openFlows, sinceDisconnect,
                   nonWalletVars>>

DisconnectWallet ==
    /\ walletPhase = "ready"
    /\ storage' = Null
    /\ adapter' = disconnectWallet(adapter)
    /\ sinceDisconnect' = TRUE
    /\ walletCall' = [op |-> "disconnectWallet", before |-> adapter,
                      ret |-> Ok("undefined"), sent |-> <<>>]
    /\ UNCHANGED <<walletPhase, pendingConnects, openFlows, nonWalletVars>>

GetAccount ==
    \E answer \in AccountAnswers :
        /\ walletPhase = "ready"
        /\ walletCall' = WalletCall("getAccount", getAccount(adapter, answer))
        /\ adapter' = getAccount(adapter, answer).state
        /\ UNCHANGED <<walletPhase, storage, pendingConnects, openFlows,
                       sinceDisconnect, nonWalletVars>>

SignMessage ==
    \E answer \in SignAnswers :
        /\ walletPhase = "ready"
        /\ walletCall' = WalletCall("signMessage",
                                    signMessage(adapter, answer))
        /\ adapter' = signMessage(adapter, answer).state
        /\ UNCHANGED <<walletPhase, storage, pendingConnects, openFlows,
                       sinceDisconnect, nonWalletVars>>

CallContract ==
    \E opened \in {Ok("opened"), Throw("open failed")} :
        LET r == callContract(adapter, opened)
        IN  /\ walletPhase = "ready"
            /\ r.ret = Awaiting => openFlows < MaxPending
            /\ adapter' = r.state
            /\ openFlows' = IF r.ret = Awaiting THEN openFlows + 1
                            ELSE openFlows
            /\ walletCall' = WalletCall("callContract", r)
            /\ UNCHANGED <<walletPhase, storage, pendingConnects,
                           sinceDisconnect, nonWalletVars>>

\* The user approves the transaction: the wallet reports its id
ContractFinish ==
    \E txId \in TxIds :
        /\ openFlows > 0
        /\ openFlows' = openFlows - 1
        /\ adapter' = onFinish(adapter, txId).state
        /\ walletCall' = [op |-> "callContract.approved", before |-> adapter,
                          ret |-> onFinish(adapter, txId).ret,
                          sent |-> <<txId>>]
        /\ UNCHANGED <<walletPhase, storage, pendingConnects,
                       sinceDisconnect, nonWalletVars>>

\* The user cancels the transaction
ContractCancel ==
    /\ openFlows > 0
    /\ openFlows' = openFlows - 1
    /\ adapter' = onCancel(adapter).state
    /\ walletCall' = [op |-> "callContract.cancelled", before |-> adapter,
                      ret |-> onCancel(adapter).ret, sent |-> <<>>]
    /\ UNCHANGED <<walletPhase, storage, pendingConnects, sinceDisconnect,
                   nonWalletVars>>

ReadContract ==
    \E answer \in {Ok("value"), Throw("read failed")} :
        /\ walletPhase = "ready"
        /\ adapter' = readContract(adapter, answer).state
        /\ walletCall' = WalletCall("readContract",
                                    readContract(adapter, answer))
        /\ UNCHANGED <<walletPhase, storage, pendingConnects, openFlows,
                       sinceDisconnect, nonWalletVars>>

NextWallet ==
    \/ InitializeWallet
    \/ ConnectWallet
    \/ ConnectResolve
    \/ ConnectReject
    \/ DisconnectWallet
    \/ GetAccount
    \/ SignMessage
    \/ CallContract
    \/ ContractFinish
    \/ ContractCancel
    \/ ReadContract

----------------------------------------------------------------------------
(* Order hashing: src/unnamed/part_011 and the older                       *)
(* src/unnamed/part_010 (lines 448-557)                                    *)

MaxSaltLen == 2

MaxClock == 2

PositionIdBytes == 32

\* Strings are sequences of characters; these are the characters of a salt
SaltChars == {"0", "7", "a", "-"}

Digits == {"0", "7"}

DigitValue(c) == IF c = "7" THEN 7 ELSE 0

RECURSIVE StringsOfLength(_)
StringsOfLength(n) ==
    IF n = 0 THEN {<<>>}
    ELSE {Append(s, c) : s \in StringsOfLength(n - 1), c \in SaltChars}

Salts == UNION {StringsOfLength(n) : n \in 0..MaxSaltLen}

\* /^\d+$/.test(salt)
IsNumericString(salt) ==
    /\ Len(salt) >= 1
    /\ \A i \in 1..Len(salt) : salt[i] \in Digits

\* BigInt(salt) for a string of digits
RECURSIVE BigInt(_)
BigInt(salt) ==
    IF salt = <<>> THEN 0
    ELSE 10 * BigInt(SubSeq(salt, 1, Len(salt) - 1))
             + DigitValue(salt[Len(salt)])

\* A position id string: an optional 0x, then `chars` characters that spell
\* the id `tag`
IdStrings(tag) ==
    [prefixed : BOOLEAN, chars : {63, 64, 65, 66}, tag : {tag}]

\* hexToBytes of part_011: the 0x is dropped, the array has
\* cleanHex.length / 2 elements, the fraction dropped by the typed array
\* constructor
orderHexToBytes(hex) ==
    [field |-> "bytes", len |-> hex.chars \div 2, val |-> hex.tag]

\* serializeCVBytes(standardPrincipalCV(address)): throws for a string that is
\* no address
principalBuff(address) ==
    IF address = "invalid"
    THEN Throw("Invalid c32 address")
    ELSE Ok([field |-> "principal", len |-> 22, val |-> address])

\* serializeCVBytes(uintCV(value)): throws for a negative value
uintBuff(value) ==
    IF value < 0
    THEN Throw("Cannot construct unsigned clarity integer from negative value")
    ELSE Ok([field |-> "uint", len |-> 17, val |-> value])

\* crypto.subtle.digest("SHA-256", bytes), hashMessage(message): the digest
\* stands for its preimage
Digest(alg, preimage) == [alg |-> alg, of |-> preimage]

\* [ret |-> the completion, ops |-> the digest, wallet and network
\* operations performed]
HashOutcome(ret, ops) == [ret |-> ret, ops |-> ops]

\* A computeOrderHash that does not check the length of the position ids
computeOrderHashUnchecked(a, now) ==
    IF ~IsNumericString(a.salt)
    THEN HashOutcome(Throw("Salt must be a numeric string"), <<>>)
    ELSE IF ~principalBuff(a.maker).ok
    THEN HashOutcome(principalBuff(a.maker), <<>>)
    ELSE IF ~uintBuff(a.makerAmount).ok
    THEN HashOutcome(uintBuff(a.makerAmount), <<>>)
    ELSE IF ~uintBuff(a.takerAmount).ok
    THEN HashOutcome(uintBuff(a.takerAmount), <<>>)
    ELSE HashOutcome(
             Ok(Digest("SHA-256",
                       <<principalBuff(a.maker).val,
                         orderHexToBytes(a.makerPositionId),
                         orderHexToBytes(a.takerPositionId),
                         uintBuff(a.makerAmount).val,
                         uintBuff(a.takerAmount).val,
                         uintBuff(BigInt(a.salt)).val,
                         uintBuff(a.expiration).val>>)),
             <<"crypto.subtle.digest">>)

\* A computeOrderHash that mixes the time of the call into the digest
computeOrderHashTimed(a, now) ==
    IF ~IsNumericString(a.salt)
       \/ ~principalBuff(a.maker).ok
       \/ orderHexToBytes(a.makerPositionId).len # PositionIdBytes
       \/ orderHexToBytes(a.takerPositionId).len # PositionIdBytes
       \/ ~uintBuff(a.makerAmount).ok
       \/ ~uintBuff(a.takerAmount).ok
    THEN HashOutcome(Throw("Error"), <<>>)
    ELSE HashOutcome(
             Ok(Digest("SHA-256",
                       <<principalBuff(a.maker).val,
                         orderHexToBytes(a.makerPositionId),
                         orderHexToBytes(a.takerPositionId),
                         uintBuff(a.makerAmount).val,
                         uintBuff(a.takerAmount).val,
                         uintBuff(BigInt(a.salt)).val,
                         uintBuff(now).val>>)),
             <<"crypto.subtle.digest">>)

\* computeOrderHash of part_011, called at time `now`
computeOrderHash(a, now) ==
    IF ~IsNumericString(a.salt)
    THEN HashOutcome(Throw("Salt must be a numeric string"), <<>>)
    ELSE IF ~principalBuff(a.maker).ok
    THEN HashOutcome(principalBuff(a.maker), <<>>)
    ELSE IF orderHexToBytes(a.makerPositionId).len # PositionIdBytes
    THEN HashOutcome(Throw("Maker position ID must be 32 bytes"), <<>>)
    ELSE IF orderHexToBytes(a.takerPositionId).len # PositionIdBytes
    THEN HashOutcome(Throw("Taker position ID must be 32 bytes"), <<>>)
    ELSE IF ~uintBuff(a.makerAmount).ok
    THEN HashOutcome(uintBuff(a.makerAmount), <<>>)
    ELSE IF ~uintBuff(a.takerAmount).ok
    THEN HashOutcome(uintBuff(a.takerAmount), <<>>)
    ELSE HashOutcome(
             Ok(Digest("SHA-256",
                       <<principalBuff(a.maker).val,
                         orderHexToBytes(a.makerPositionId),
                         orderHexToBytes(a.takerPositionId),
                         uintBuff(a.makerAmount).val,
                         uintBuff(a.takerAmount).val,
                         uintBuff(BigInt(a.salt)).val,
                         uintBuff(a.expiration).val>>)),
             <<"crypto.subtle.digest">>)

\* computeOrderHash of part_010: the hash of the JSON text of the arguments
\* maker, taker, positionId, makerAmount, takerAmount, salt, expiration
computeOrderHashJson(a, now) ==
    HashOutcome(
        Ok(Digest("hashMessage",
                  <<[field |-> "maker", len |-> 0, val |-> a.maker],
                    [field |-> "taker", len |-> 0, val |-> a.taker],
                    [field |-> "positionId", len |-> 0, val |-> a.positionId],
                    [field |-> "makerAmount", len |-> 0,
                     val |-> a.makerAmount],
                    [field |-> "takerAmount", len |-> 0,
                     val |-> a.takerAmount],
                    [field |-> "salt", len |-> 0, val |-> a.salt],
                    [field |-> "expiration", len |-> 0,
                     val |-> a.expiration]>>)),
        <<"hashMessage">>)

\* calculateExpiration
calculateExpiration == 999999999

Makers == {"ST1MAKER", "invalid"}

HashArgs ==
    [maker : Makers,
     makerPositionId : IdStrings("yes"),
     takerPositionId :
         {id \in IdStrings("no") :
             id.prefixed = (id.chars = 66) /\ id.chars # 65},
     makerAmount : {-1, 1000000},
     takerAmount : {500000},
     salt : Salts,
     expiration : {calculateExpiration}]

HashArgsJson ==
    [maker : Makers, taker : Makers,
     positionId : {id \in IdStrings("yes") : id.chars = 64},
     makerAmount : {1000000},
     takerAmount : {500000},
     salt : {s \in Salts : Len(s) = 1},
     expiration : {calculateExpiration}]

HashCall(outcome) ==
    [at |-> hashClock, ret |-> outcome.ret, ops |-> outcome.ops]

InitHash ==
    /\ hashFn \in {"clarity", "json"}
    /\ hashArgs \in IF hashFn = "clarity" THEN HashArgs ELSE HashArgsJson
    /\ hashClock = 0
    /\ hashLog = <<>>

\* The order hash of part_011 is computed for the arguments, a first and a
\* second time
ComputeOrderHash ==
    /\ hashFn = "clarity"
    /\ Len(hashLog) < 2
    /\ hashLog' = Append(hashLog,
                         HashCall(computeOrderHash(hashArgs, hashClock)))
    /\ UNCHANGED <<hashFn, hashArgs, hashClock, nonHashVars>>

\* The order hash of part_010 is computed for the arguments
ComputeOrderHashJson ==
    /\ hashFn = "json"
    /\ Len(hashLog) < 2
    /\ hashLog' = Append(hashLog,
                         HashCall(computeOrderHashJson(hashArgs, hashClock)))
    /\ UNCHANGED <<hashFn, hashArgs, hashClock, nonHashVars>>

\* Time passes between the calls
HashTick ==
    /\ hashClock < MaxClock
    /\ hashClock' = hashClock + 1
    /\ UNCHANGED <<hashFn, hashArgs, hashLog, nonHashVars>>

NextHash ==
    \/ ComputeOrderHash
    \/ ComputeOrderHashJson
    \/ HashTick

----------------------------------------------------------------------------
(* The views: onSubmitOrder and previewOrder of the market pages           *)
(* (MarketDetail.tsx, Markets.tsx, part_003) and loadPositions and         *)
(* mergeMarketPairs of the portfolio page (part_001).  One page is mounted *)
(* at a time; every await of a handler is a step of its own, and the       *)
(* answer of the awaited call is chosen when the handler continues.        *)

\* Denominator of the fixed-point numbers a form text converts to.
TextDen == 10

OrderPages == {"MarketDetail", "Markets", "part_003"}

Routes == OrderPages \cup {"part_001"}

Num(v) == [nan |-> FALSE, val |-> v]

NaN == [nan |-> TRUE, val |-> 0]

\* The texts a form field holds: empty, not a number, a fraction, a whole.
InputTexts == {"", "abc", "0.5", "2"}

\* Number(text): the empty string converts to 0, a non-numeric one to NaN.
Number(text) ==
    CASE text = "" -> Num(0)
      [] text = "abc" -> NaN
      [] text = "0.5" -> Num(TextDen \div 2)
      [] text = "2" -> Num(2 * TextDen)

\* Math.floor
Floor(n) == IF n.nan THEN n ELSE Num((n.val \div TextDen) * TextDen)

Times(n, k) == IF n.nan THEN n ELSE Num(n.val * k)

\* !n for a number: 0 and NaN are falsy.
Falsy(n) == n.nan \/ n.val = 0

NoMessage == "undefined"

numericSize(view, p) ==
    IF view = "MarketDetail" THEN Floor(Number(p.size)) ELSE Number(p.size)

\* Only read for LIMIT orders (it is undefined for MARKET orders).
numericPrice(view, p) ==
    IF view = "MarketDetail"
    THEN Floor(Times(Number(p.price), AtomicUnits))
    ELSE Number(p.price)

\* The checks of onSubmitOrder that precede its try block: the message
\* they set, or NoMessage when the form passes.
validateOrder(view, p) ==
    IF ~p.isConnected
    THEN "Please connect your wallet to place orders."
    ELSE IF view = "part_003"
    THEN IF \/ p.maker = ""
            \/ numericPrice(view, p).nan
            \/ numericSize(view, p).nan
         THEN "Please provide maker address, price, and size."
         ELSE NoMessage
    ELSE IF p.maker = "" \/ numericSize(view, p).nan
    THEN "Please provide maker address and size."
    ELSE IF p.orderType = "LIMIT" /\ Falsy(numericPrice(view, p))
    THEN "Please provide a price for limit orders."
    ELSE NoMessage

\* The page's state (the form's fields among it), the handler's position,
\* the calls it has made and the exceptions its catch blocks have caught.
OrderPage(connected, maker, size, price, orderType, side) ==
    [isConnected |-> connected, maker |-> maker, size |-> size,
     price |-> price, orderType |-> orderType, side |-> side,
     pc |-> "idle", calls |-> <<>>, needsSplit |-> "unknown",
     deposit |-> "none", signature |-> Null, errorMessage |-> NoMessage,
     successMessage |-> NoMessage, isProcessing |-> FALSE,
     executionPreview |-> Null, previewRan |-> FALSE, caught |-> <<>>]

NewOrderPage == OrderPage(FALSE, "", "", "", "LIMIT", "BUY")

\* The end of a submission that was accepted: the form is cleared.
finish(p) ==
    [p EXCEPT !.pc = "done", !.price = "", !.size = "",
              !.executionPreview = Null, !.isProcessing = FALSE]

\* return after setErrorMessage; the handlers clear isProcessing on the way.
fail(p, message) ==
    [p EXCEPT !.pc = "done", !.errorMessage = message, !.isProcessing = FALSE]

\* The catch and finally blocks that close onSubmitOrder's try block.
submitCatch(p, err) ==
    [p EXCEPT !.pc = "done",
              !.successMessage = NoMessage,
              !.errorMessage = IF err = "" THEN "Failed to submit order" ELSE err,
              !.isProcessing = FALSE,
              !.caught = Append(@, "onSubmitOrder")]

\* onSubmitOrder up to its first await.
onSubmitOrder(view, p) ==
    LET message == validateOrder(view, p) IN
    IF message # NoMessage
    THEN [p EXCEPT !.pc = "done", !.errorMessage = message,
                   !.successMessage = NoMessage]
    ELSE IF view = "part_003"
    THEN [p EXCEPT !.pc = "signing", !.errorMessage = NoMessage,
                   !.calls = Append(@, "signMessage")]
    ELSE [p EXCEPT !.pc = "checking", !.errorMessage = NoMessage,
                   !.isProcessing = TRUE,
                   !.calls = Append(@, "checkIfNeedsSplit")]

\* From the end of the deposit branch to the await of computeOrderHash.
prepareOrder(view, p) ==
    IF /\ view = "MarketDetail"
       /\ p.orderType = "MARKET"
       /\ p.executionPreview = Null
    THEN submitCatch(p, "Cannot execute market order without execution preview")
    ELSE [p EXCEPT !.pc = "hashing"]

\* checkIfNeedsSplit answered; shouldSplit is the user's answer to
\* window.confirm.
splitChecked(view, p, needsSplit, shouldSplit) ==
    IF ~needsSplit
    THEN prepareOrder(view, [p EXCEPT !.needsSplit = "no"])
    ELSE IF ~shouldSplit
    THEN fail([p EXCEPT !.needsSplit = "yes", !.deposit = "declined"],
              "Order cancelled - deposit required")
    ELSE [p EXCEPT !.needsSplit = "yes", !.pc = "splitting",
                   !.calls = Append(@, "callContract")]

\* splitPosition: the wallet's answer to callContract, as the result
\* record onSubmitOrder reads.
splitPosition(answer) ==
    IF answer.ok
    THEN [success |-> TRUE, txId |-> answer.val]
    ELSE [success |-> FALSE, txId |-> ""]

\* splitPosition returned.
splitSettled(view, p, answer) ==
    LET splitResult == splitPosition(answer)
        q == IF answer.ok
             THEN [p EXCEPT !.successMessage = "Deposited"]
             ELSE [p EXCEPT !.caught = Append(@, "splitPosition")]
    IN IF ~splitResult.success
       THEN fail([q EXCEPT !.deposit = "cancelled"], "Deposit cancelled")
       ELSE IF splitResult.txId # ""
       THEN [q EXCEPT !.pc = "confirming", !.deposit = "submitted",
                      !.successMessage = "Waiting for deposit confirmation",
                      !.calls = Append(@, "waitForTransactionConfirmation")]
       ELSE prepareOrder(view, [q EXCEPT !.deposit = "submitted"])

\* The results waitForTransactionConfirmation has for its callers.
Confirmations ==
    {Ok([success |-> TRUE, status |-> "success"]),
     Ok([success |-> FALSE, status |-> "abort_by_response"]),
     Ok([success |-> FALSE, status |-> "abort_by_post_condition"]),
     Throw("Transaction confirmation timeout")}

\* A variant of depositSettled that goes on whatever the transaction's
\* status is.
depositSettledAnyStatus(view, p, confirmation) ==
    IF confirmation.ok
    THEN prepareOrder(view,
             [p EXCEPT !.deposit = IF confirmation.val.success
                                   THEN "confirmed" ELSE "aborted",
                       !.successMessage = "Deposit confirmed"])
    ELSE fail([p EXCEPT !.deposit = "timeout",
                        !.caught = Append(@, "deposit")],
              "Deposit timeout")

\* waitForTransactionConfirmation of the deposit returned or threw.
depositSettled(view, p, confirmation) ==
    IF ~confirmation.ok
    THEN fail([p EXCEPT !.deposit = "timeout",
                        !.caught = Append(@, "deposit")],
              "Deposit timeout")
    ELSE IF confirmation.val.success
    THEN prepareOrder(view,
             [p EXCEPT !.deposit = "confirmed",
                       !.successMessage = "Deposit confirmed"])
    ELSE fail([p EXCEPT !.deposit = "aborted"], "Deposit failed")

\* computeOrderHash returned or threw.
hashSettled(p, hash) ==
    IF hash.ok
    THEN [p EXCEPT !.pc = "signing", !.calls = Append(@, "signMessage")]
    ELSE submitCatch(p, hash.err)

\* signMessage returned or threw.
signSettled(p, answer) ==
    IF answer.ok
    THEN [p EXCEPT !.pc = "placing", !.signature = answer.val,
                   !.calls = Append(@, "placeOrder")]
    ELSE submitCatch([p EXCEPT !.signature = "failed"], answer.err)

\* The order request returned or threw.
placeSettled(view, p, response) ==
    IF ~response.ok
    THEN submitCatch(p, response.err)
    ELSE IF view = "part_003"
    THEN finish([p EXCEPT !.successMessage = "Order submitted"])
    ELSE IF ~response.val
    THEN [p EXCEPT !.pc = "done", !.isProcessing = FALSE]
    ELSE IF p.side = "SELL"
    THEN [p EXCEPT !.pc = "autoMerge", !.successMessage = "Order placed",
                   !.calls = Append(@, "checkPositionBalance")]
    ELSE finish([p EXCEPT !.successMessage = "Order placed"])

\* Auto-merge after a SELL: the balances are read; shouldMerge is the
\* user's answer to window.confirm.
mergeChecked(p, mergeablePairs, shouldMerge) ==
    IF mergeablePairs /\ shouldMerge
    THEN [p EXCEPT !.pc = "merging", !.successMessage = "Merging",
                   !.calls = Append(@, "callContract")]
    ELSE finish(p)

\* mergePositions returned: on the wallet's approval it shows a message
\* and reports the transaction; its own catch block logs to the console
\* and reports success = false, and the auto-merge does nothing with a
\* failed result.
mergeSettled(p, answer) ==
    IF answer.ok /\ answer.val # ""
    THEN [p EXCEPT !.pc = "mergeConfirming",
                   !.successMessage = "Waiting for merge confirmation",
                   !.calls = Append(@, "waitForTransactionConfirmation")]
    ELSE IF answer.ok
    THEN finish([p EXCEPT !.successMessage = "Merged"])
    ELSE finish([p EXCEPT !.caught = Append(@, "mergePositions")])

\* waitForTransactionConfirmation of the merge returned or threw; the
\* auto-merge's catch block logs to the console and nothing else.
mergeConfirmed(p, confirmation) ==
    IF ~confirmation.ok
    THEN finish([p EXCEPT !.caught = Append(@, "autoMerge")])
    ELSE IF confirmation.val.success
    THEN finish([p EXCEPT !.successMessage = "Order placed and merged"])
    ELSE finish([p EXCEPT !.errorMessage = "Merge transaction failed"])

\* previewOrder sends a request for a positive size and, for a LIMIT
\* order, a price that is present and numeric.
previewRequested(view, p) ==
    /\ p.size # ""
    /\ ~Number(p.size).nan
    /\ Number(p.size).val > 0
    /\ p.orderType = "LIMIT" =>
           p.price # "" /\ ~numericPrice(view, p).nan

\* previewOrder: the effect that follows a change of the p.
previewOrder(view, p, response) ==
    IF ~previewRequested(view, p)
    THEN [p EXCEPT !.previewRan = TRUE, !.executionPreview = Null]
    ELSE IF response.ok
    THEN [p EXCEPT !.previewRan = TRUE, !.executionPreview = response.val]
    ELSE [p EXCEPT !.previewRan = TRUE, !.executionPreview = Null,
                   !.caught = Append(@, "previewOrder")]

NewPortfolio ==
    [pc |-> "idle", loading |-> TRUE, positions |-> <<>>,
     merging |-> FALSE, mergeMessage |-> NoMessage, caught |-> <<>>]

\* What the portfolio's requests answer: every balance, no balance (each
\* read failed and was logged), or a failed market request.
PositionLoads == {Ok(<<"YES", "NO">>), Ok(<<>>), Throw("Network error")}

\* loadPositions from the answer of its requests to its finally block.
loadPositions(f, load) ==
    IF load.ok
    THEN [f EXCEPT !.pc = "loaded", !.loading = FALSE,
                   !.positions = load.val,
                   !.caught = IF load.val = <<>>
                              THEN Append(@, "balance-of") ELSE @]
    ELSE [f EXCEPT !.pc = "loaded", !.loading = FALSE,
                   !.caught = Append(@, "loadPositions")]

\* mergeMarketPairs: callContract returned or threw.
mergeMarketPairs(f, answer) ==
    IF answer.ok
    THEN [f EXCEPT !.pc = "confirming",
                   !.mergeMessage = "Waiting for confirmation"]
    ELSE [f EXCEPT !.pc = "loaded", !.merging = FALSE,
                   !.mergeMessage = "Merge cancelled or failed",
                   !.caught = Append(@, "mergeMarketPairs")]

\* mergeMarketPairs: waitForTransactionConfirmation returned or threw.
mergePairsConfirmed(f, confirmation) ==
    [f EXCEPT !.pc = "loaded", !.merging = FALSE,
              !.mergeMessage =
                  IF ~confirmation.ok
                  THEN "Transaction timeout - please check blockchain"
                  ELSE IF confirmation.val.success
                  THEN "Merged successfully"
                  ELSE "Merge failed",
              !.caught = IF confirmation.ok THEN @ ELSE Append(@, "merge")]

OrderTypes == {"LIMIT", "MARKET"}

\* A market page starts with any form (part_003 has LIMIT orders only);
\* on the portfolio page there is no order form.
InitViews ==
    /\ route \in Routes
    /\ \E connected \in BOOLEAN, maker \in {"", "account1"},
          size \in InputTexts, price \in InputTexts,
          orderType \in OrderTypes, side \in Sides :
           orderPage = OrderPage(connected, maker, size, price,
                                 orderType, side)
    /\ route = "part_003" => orderPage.orderType = "LIMIT"
    /\ route = "part_001" => orderPage = NewOrderPage
    /\ portfolio = NewPortfolio

OnPage(pcs) == route \in OrderPages /\ orderPage.pc \in pcs

PreviewOrder ==
    /\ OnPage({"idle"})
    /\ route # "part_003"
    /\ ~orderPage.previewRan
    /\ \E response \in {Ok("plan"), Throw("Network error")} :
           orderPage' = previewOrder(route, orderPage, response)
    /\ UNCHANGED <<route, portfolio, nonViewsVars>>

SubmitOrder ==
    /\ OnPage({"idle"})
    /\ orderPage' = onSubmitOrder(route, orderPage)
    /\ UNCHANGED <<route, portfolio, nonViewsVars>>

SplitCheckSettle ==
    /\ OnPage({"checking"})
    /\ \E needsSplit \in BOOLEAN, shouldSplit \in BOOLEAN :
           orderPage' = splitChecked(route, orderPage,
                                     needsSplit, shouldSplit)
    /\ UNCHANGED <<route, portfolio, nonViewsVars>>

SplitSettle ==
    /\ OnPage({"splitting"})
    /\ \E answer \in {Ok("tx1"), UserCancelled} :
           orderPage' = splitSettled(route, orderPage, answer)
    /\ UNCHANGED <<route, portfolio, nonViewsVars>>

DepositSettle ==
    /\ OnPage({"confirming"})
    /\ \E confirmation \in Confirmations :
           orderPage' = depositSettled(route, orderPage, confirmation)
    /\ UNCHANGED <<route, portfolio, nonViewsVars>>

HashSettle ==
    /\ OnPage({"hashing"})
    /\ \E hash \in {Ok("hash"), Throw("Invalid salt")} :
           orderPage' = hashSettled(orderPage, hash)
    /\ UNCHANGED <<route, portfolio, nonViewsVars>>

SignSettle ==
    /\ OnPage({"signing"})
    /\ \E answer \in {Ok("signature"), Throw("Failed to sign message"), Throw("")} :
           orderPage' = signSettled(orderPage, answer)
    /\ UNCHANGED <<route, portfolio, nonViewsVars>>

PlaceSettle ==
    /\ OnPage({"placing"})
    /\ \E response \in {Ok(TRUE), Ok(FALSE), Throw("Network error")} :
           orderPage' = placeSettled(route, orderPage, response)
    /\ UNCHANGED <<route, portfolio, nonViewsVars>>

MergeCheckSettle ==
    /\ OnPage({"autoMerge"})
    /\ \E mergeablePairs \in BOOLEAN, shouldMerge \in BOOLEAN :
           orderPage' = mergeChecked(orderPage, mergeablePairs, shouldMerge)
    /\ UNCHANGED <<route, portfolio, nonViewsVars>>

MergeSettle ==
    /\ OnPage({"merging"})
    /\ \E answer \in {Ok("tx2"), UserCancelled} :
           orderPage' = mergeSettled(orderPage, answer)
    /\ UNCHANGED <<route, portfolio, nonViewsVars>>

MergeConfirmSettle ==
    /\ OnPage({"mergeConfirming"})
    /\ \E confirmation \in Confirmations :
           orderPage' = mergeConfirmed(orderPage, confirmation)
    /\ UNCHANGED <<route, portfolio, nonViewsVars>>

LoadPositions ==
    /\ route = "part_001"
    /\ portfolio.pc = "idle"
    /\ \E load \in PositionLoads :
           portfolio' = loadPositions([portfolio EXCEPT !.loading = TRUE], load)
    /\ UNCHANGED <<route, orderPage, nonViewsVars>>

MergeMarketPairs ==
    /\ route = "part_001"
    /\ portfolio.pc = "loaded"
    /\ portfolio.positions # <<>>
    /\ portfolio.mergeMessage = NoMessage
    /\ portfolio' = [portfolio EXCEPT !.pc = "merging", !.merging = TRUE,
                                      !.mergeMessage = "Merging"]
    /\ UNCHANGED <<route, orderPage, nonViewsVars>>

MergePairsSettle ==
    /\ route = "part_001"
    /\ portfolio.pc = "merging"
    /\ \E answer \in {Ok("tx1"), UserCancelled} :
           portfolio' = mergeMarketPairs(portfolio, answer)
    /\ UNCHANGED <<route, orderPage, nonViewsVars>>

MergePairsConfirmSettle ==
    /\ route = "part_001"
    /\ portfolio.pc = "confirming"
    /\ \E confirmation \in Confirmations :
           portfolio' = mergePairsConfirmed(portfolio, confirmation)
    /\ UNCHANGED <<route, orderPage, nonViewsVars>>

NextViews ==
    \/ PreviewOrder
    \/ SubmitOrder
    \/ SplitCheckSettle
    \/ SplitSettle
    \/ DepositSettle
    \/ HashSettle
    \/ SignSettle
    \/ PlaceSettle
    \/ MergeCheckSettle
    \/ MergeSettle
    \/ MergeConfirmSettle
    \/ LoadPositions
    \/ MergeMarketPairs
    \/ MergePairsSettle
    \/ MergePairsConfirmSettle

----------------------------------------------------------------------------
(* The API client: apiRequest (part_008) and request (part_007).  A call   *)
(* sends its request and, when the response arrives, settles.              *)

JsonContentType == [name |-> "Content-Type", value |-> "application/json"]

\* A headers object is a set of name-value pairs with one value per name.
HeaderNames(headers) == {h.name : h \in headers}

\* { ...a, ...b }: the entries of b and those of a whose name b lacks.
SpreadHeaders(a, b) == b \cup {h \in a : h.name \notin HeaderNames(b)}

\* The headers a caller may supply.
CallerHeaders ==
    {{},
     {[name |-> "Authorization", value |-> "token"]},
     {[name |-> "Content-Type", value |-> "text/plain"]}}

\* An option of the init object: an own property with a value, or absent.
Own(v) == [own |-> TRUE, val |-> v]

Missing == [own |-> FALSE, val |-> {}]

NoOptions == [skipJson |-> FALSE, headers |-> Missing, method |-> "GET"]

ApiOptions ==
    [skipJson : BOOLEAN,
     headers : {Missing} \cup {Own(h) : h \in CallerHeaders},
     method : {"GET", "POST"}]

\* The init object handed to fetch: { headers: { 'Content-Type': ...,
\* ...(init.headers || {}) }, ...init }.  The spread of init comes last, so
\* an own headers property of init replaces the merged headers.
fetchInit(options) ==
    LET merged == SpreadHeaders({JsonContentType}, options.headers.val) IN
    [headers |-> IF options.headers.own THEN options.headers.val ELSE merged,
     method |-> options.method]

JsonText == "{\"success\":true}"

Bodies == {"", JsonText, "Market not found"}

Statuses == {200, 204, 404, 500}

HttpResponse(status, body) == [status |-> status, body |-> body]

\* What fetch answers: a response, or a rejection when the transport fails.
FetchAnswers ==
    {Ok(HttpResponse(status, body)) : status \in Statuses, body \in Bodies}
        \cup {Throw("Failed to fetch")}

\* response.ok
ResponseOk(response) == response.status >= 200 /\ response.status <= 299

JsonValue(text) == [kind |-> "json", of |-> text]

\* response.json(): the parsed body, or a SyntaxError for a body that is
\* not JSON text (the empty body among them).
responseJson(response) ==
    IF response.body = JsonText
    THEN Ok(JsonValue(response.body))
    ELSE Throw("SyntaxError")

StatusText(status) ==
    CASE status = 200 -> "200" [] status = 204 -> "204"
      [] status = 404 -> "404" [] status = 500 -> "500"

StatusMessage(status) == <<"Request failed with status ", StatusText(status)>>

\* A variant that returns undefined for every 2xx response.
apiSettleNoJson(options, answer) ==
    IF ~answer.ok
    THEN Throw(<<answer.err>>)
    ELSE IF ~ResponseOk(answer.val)
    THEN Throw(IF answer.val.body # ""
               THEN <<answer.val.body>>
               ELSE StatusMessage(answer.val.status))
    ELSE Ok(Undefined)

\* apiRequest / request after the await of fetch.  Error messages are
\* tuples of their parts.
apiSettle(options, answer) ==
    IF ~answer.ok
    THEN Throw(<<answer.err>>)
    ELSE IF ~ResponseOk(answer.val)
    THEN Throw(IF answer.val.body # ""
               THEN <<answer.val.body>>
               ELSE StatusMessage(answer.val.status))
    ELSE IF options.skipJson
    THEN Ok(Undefined)
    ELSE LET parsed == responseJson(answer.val) IN
         IF parsed.ok THEN parsed ELSE Throw(<<parsed.err>>)

NotSettled == [settled |-> FALSE, answer |-> Throw("none"), ret |-> Throw(<<>>)]

ApiSettled(answer, ret) == [settled |-> TRUE, answer |-> answer, ret |-> ret]

InitApi ==
    /\ apiFn \in {"apiRequest", "request"}
    /\ apiOptions \in ApiOptions
    /\ apiSent = <<>>
    /\ apiRet = NotSettled

\* The call up to its await: fetch is called once.
ApiRequest ==
    /\ apiFn # "none"
    /\ apiSent = <<>>
    /\ apiSent' = <<fetchInit(apiOptions)>>
    /\ UNCHANGED <<apiFn, apiOptions, apiRet, nonApiVars>>

\* fetch settles and the call runs to its end.
ApiSettle ==
    /\ apiSent # <<>>
    /\ ~apiRet.settled
    /\ \E answer \in FetchAnswers :
           apiRet' = ApiSettled(answer, apiSettle(apiOptions, answer))
    /\ UNCHANGED <<apiFn, apiOptions, apiSent, nonApiVars>>

NextApi ==
    \/ ApiRequest
    \/ ApiSettle

----------------------------------------------------------------------------
(* The query hooks of src/src/api/queries (markets.ts, orderbook.ts): the  *)
(* options they hand to useQuery, and what an observer with these options  *)
(* fetches on mount, on a refetch interval, on an invalidation and on a    *)
(* change of the market id.                                                *)

MarketHooks ==
    {"useMarket", "useMarketStats", "useOrderbook", "useTrades",
     "usePriceHistory"}

QueryHooks == MarketHooks \cup {"useMarkets"}

\* The market ids a page passes: '' while no market is selected.
MarketIdArgs == {""} \cup Markets

\* Boolean(marketId)
Boolean(text) == text # ""

\* A variant in which every hook is enabled.
hookEnabledAlways(hook, marketId) == TRUE

\* The enabled option of the hook: useMarkets has none (the default, true).
hookEnabled(hook, marketId) ==
    IF hook \in MarketHooks THEN Boolean(marketId) ELSE TRUE

\* Whether the hook sets refetchInterval.
hasRefetchInterval(hook) == hook # "useMarket"

\* The request of the hook's queryFn.
HookFetch(hook, marketId) == [hook |-> hook, marketId |-> marketId]

\* The observer fetches when it is enabled.
observerFetch ==
    /\ hookEnabled(hookName, hookMarketId)
    /\ Len(hookFetches) < MaxRequests
    /\ hookFetches' = Append(hookFetches, HookFetch(hookName, hookMarketId))

InitHooks ==
    /\ hookName \in QueryHooks
    /\ hookMarketId \in MarketIdArgs
    /\ hookMounted = FALSE
    /\ hookFetches = <<>>

\* The component mounts: an enabled query is fetched.
HookMount ==
    /\ hookName # "none"
    /\ ~hookMounted
    /\ hookMounted' = TRUE
    /\ IF hookEnabled(hookName, hookMarketId)
       THEN observerFetch
       ELSE UNCHANGED hookFetches
    /\ UNCHANGED <<hookName, hookMarketId, nonHooksVars>>

\* The refetch interval of an enabled query elapses.
HookInterval ==
    /\ hookMounted
    /\ hasRefetchInterval(hookName)
    /\ observerFetch
    /\ UNCHANGED <<hookName, hookMarketId, hookMounted, nonHooksVars>>

\* invalidateQueries matches the query: it is refetched when enabled.
HookInvalidate ==
    /\ hookMounted
    /\ observerFetch
    /\ UNCHANGED <<hookName, hookMarketId, hookMounted, nonHooksVars>>

\* The page selects another market, or none: the query key changes.
HookMarketChange ==
    /\ hookMounted
    /\ hookName \in MarketHooks
    /\ \E marketId \in MarketIdArgs \ {hookMarketId} :
           /\ hookMarketId' = marketId
           /\ IF hookEnabled(hookName, marketId) /\ Len(hookFetches) < MaxRequests
              THEN hookFetches' = Append(hookFetches, HookFetch(hookName, marketId))
              ELSE UNCHANGED hookFetches
    /\ UNCHANGED <<hookName, hookMounted, nonHooksVars>>

HookUnmount ==
    /\ hookMounted
    /\ hookMounted' = FALSE
    /\ UNCHANGED <<hookName, hookMarketId, hookFetches, nonHooksVars>>

NextHooks ==
    \/ HookMount
    \/ HookInterval
    \/ HookInvalidate
    \/ HookMarketChange
    \/ HookUnmount

----------------------------------------------------------------------------
(* generateSalt (part_011, part_010) and the orders that carry its salts   *)

MaxOrders == 2

DecimalDigit(n) ==
    CASE n = 0 -> "0" [] n = 1 -> "1" [] n = 2 -> "2" [] n = 3 -> "3"
      [] n = 4 -> "4" [] n = 5 -> "5" [] n = 6 -> "6" [] n = 7 -> "7"
      [] n = 8 -> "8" [] n = 9 -> "9"

\* Number.prototype.toString for a natural number: its decimal digits.
RECURSIVE numberToString(_)
numberToString(n) ==
    IF n < 10
    THEN <<DecimalDigit(n)>>
    ELSE Append(numberToString(n \div 10), DecimalDigit(n % 10))

\* generateSalt() called at time now: Date.now().toString()
generateSalt(now) == numberToString(now)

\* The parameters of an order other than its salt.
OrderParams == [side : Sides, size : {1, 2}]

InitSalt ==
    /\ saltClock = 0
    /\ saltOrders = <<>>

\* onSubmitOrder reaches generateSalt for an order with these parameters.
PrepareOrder ==
    /\ Len(saltOrders) < MaxOrders
    /\ saltClock >= 0
    /\ \E params \in OrderParams :
           saltOrders' = Append(saltOrders,
                                [params |-> params,
                                 salt |-> generateSalt(saltClock)])
    /\ UNCHANGED <<saltClock, nonSaltVars>>

\* A millisecond passes.
SaltTick ==
    /\ saltClock >= 0
    /\ saltClock < MaxClock
    /\ saltClock' = saltClock + 1
    /\ UNCHANGED <<saltOrders, nonSaltVars>>

NextSalt ==
    \/ PrepareOrder
    \/ SaltTick

----------------------------------------------------------------------------
(* signOrder (part_011): new Promise(async (resolve, reject) => ...).  The *)
(* returned promise settles only through resolve and reject; an exception  *)
(* of the async executor after its first await rejects the executor's own  *)
(* promise, which nobody holds.                                            *)

PromiseOf(state, value) == [state |-> state, value |-> value]

\* signOrder is called with a valid maker and amounts.
SignArgs ==
    {a \in HashArgs : a.maker = "ST1MAKER" /\ a.makerAmount >= 0}

InitSign ==
    /\ signArgs \in SignArgs
    /\ signPc = "called"
    /\ signPromise = PromiseOf("pending", Null)
    /\ signOpened = 0

\* The executor runs to its await of computeOrderHash, which completes; on
\* a digest the executor goes on to open the signature request, on an
\* exception it ends without a call of resolve or reject.
SignHashSettle ==
    /\ signPc = "called"
    /\ LET hash == computeOrderHash(signArgs, 0).ret IN
       IF ~hash.ok
       THEN /\ signPc' = "threw"
            /\ UNCHANGED <<signPromise, signOpened>>
       ELSE \E opened \in BOOLEAN :
                /\ signOpened' = signOpened + 1
                /\ IF opened
                   THEN /\ signPc' = "popup"
                        /\ UNCHANGED signPromise
                   ELSE /\ signPc' = "done"
                        /\ signPromise' =
                               PromiseOf("rejected", "popup failed")
    /\ UNCHANGED <<signArgs, nonSignVars>>

\* The user approves: onFinish resolves with the signature.
SignFinish ==
    /\ signPc = "popup"
    /\ signPc' = "done"
    /\ signPromise' = PromiseOf("fulfilled", "signature")
    /\ UNCHANGED <<signArgs, signOpened, nonSignVars>>

\* The user cancels: onCancel rejects.
SignCancel ==
    /\ signPc = "popup"
    /\ signPc' = "done"
    /\ signPromise' =
           PromiseOf("rejected", "User cancelled signature request")
    /\ UNCHANGED <<signArgs, signOpened, nonSignVars>>

NextSign ==
    \/ SignHashSettle
    \/ SignFinish
    \/ SignCancel

----------------------------------------------------------------------------
(* The preview effect of the market pages: debounce, request, response     *)

MaxEdits == 2

NoPlan == 0

PreviewForms == [size : {"", "0.5", "2"}, price : {"", "0.5"}, orderType : OrderTypes]

\* The form a page mounts with: a whole size, a fractional price, LIMIT
DefaultForm == [size |-> "2", price |-> "0.5", orderType |-> "LIMIT"]

\* The body of the preview request; JSON.stringify leaves out the price of
\* a MARKET order, which is undefined.
previewBody(view, form) ==
    [orderType |-> form.orderType,
     size |-> numericSize(view, form),
     price |-> IF form.orderType = "LIMIT"
               THEN {numericPrice(view, form)} ELSE {}]

PreviewRun(body, status) == [body |-> body, status |-> status]

PendingRuns == {i \in 1..Len(previewRuns) : previewRuns[i].status = "pending"}

InitPreview ==
    /\ previewView \in {"MarketDetail", "Markets"}
    /\ previewForm = DefaultForm
    /\ previewEdits = 0
    /\ debounce = TRUE
    /\ previewRuns = <<>>
    /\ executionPreview = NoPlan
    /\ previewWriter = 0

\* The user changes a field: the effect's cleanup clears the armed timer
\* and the effect arms a new one. Requests already sent are left alone.
EditForm ==
    /\ previewView # "none"
    /\ previewEdits < MaxEdits
    /\ \E form \in PreviewForms \ {previewForm} : previewForm' = form
    /\ previewEdits' = previewEdits + 1
    /\ debounce' = TRUE
    /\ UNCHANGED <<previewView, previewRuns, executionPreview, previewWriter>>
    /\ UNCHANGED nonPreviewVars

\* The timer fires: previewOrder up to its await, or to its early return
DebounceFire ==
    /\ debounce
    /\ debounce' = FALSE
    /\ LET body == previewBody(previewView, previewForm) IN
       IF previewRequested(previewView, previewForm)
       THEN /\ previewRuns' = Append(previewRuns, PreviewRun(body, "pending"))
            /\ UNCHANGED <<executionPreview, previewWriter>>
       ELSE /\ previewRuns' = Append(previewRuns, PreviewRun(body, "skipped"))
            /\ executionPreview' = NoPlan
            /\ previewWriter' = Len(previewRuns) + 1
    /\ UNCHANGED <<previewView, previewForm, previewEdits>>
    /\ UNCHANGED nonPreviewVars

\* The answer to a preview request arrives: the rest of previewOrder
PreviewSettle ==
    /\ \E i \in PendingRuns, ok \in BOOLEAN :
           /\ previewRuns' = [previewRuns EXCEPT ![i].status =
                                  IF ok THEN "ok" ELSE "failed"]
           /\ executionPreview' = IF ok THEN i ELSE NoPlan
           /\ previewWriter' = i
    /\ UNCHANGED <<previewView, previewForm, previewEdits, debounce>>
    /\ UNCHANGED nonPreviewVars

NextPreview ==
    \/ EditForm
    \/ DebounceFire
    \/ PreviewSettle

----------------------------------------------------------------------------
(* The deposit of the market pages: shortfall, split-position, balance     *)

\* Math.floor(n * 1_000_000) of whole order sizes
RequiredBalances == {1000000, 2000000}

CurrentBalances == {0, 996000, 999751, 1000000, 1999999, 2000000}

NotSent == -1

CentUnits == 10000

\* Math.floor((x / 1_000_000) * 1_000_000) in IEEE doubles, for the
\* shortfalls of the balances above: the product of 0.000249 and 1_000_000
\* is 248.99999999999997.
floorRoundTrip(x) ==
    CASE x = 249 -> 248
      [] x \in {1, 4000, 1000000, 1000249, 1004000, 2000000} -> x

\* Number(x / 1_000_000).toFixed(2) in atomic units: the nearest cent. No
\* shortfall above lies halfway between two cents.
toFixed2(x) == ((x + CentUnits \div 2) \div CentUnits) * CentUnits

\* amountMicroSats of splitPosition for the splitAmount each page passes:
\* MarketDetail the shortfall, Markets Number(shortfall.toFixed(2)).
splitAmountMicroSats(view, check) ==
    LET shortfall == check.requiredBalance - check.currentBalance
    IN  IF view = "MarketDetail"
        THEN floorRoundTrip(shortfall)
        ELSE toFixed2(shortfall)

BalanceChecks ==
    {[needsSplit |-> current < required, requiredBalance |-> required,
      currentBalance |-> current] :
         required \in RequiredBalances, current \in CurrentBalances}

InitDeposit ==
    /\ splitView \in {"MarketDetail", "Markets"}
    /\ \E check \in BalanceChecks :
           /\ balanceCheck = check
           /\ positionBalance = check.currentBalance
    /\ splitPc = "checked"
    /\ amountMicroSats = NotSent

\* if (!balanceCheck.needsSplit): the order goes on without a deposit
NoSplitNeeded ==
    /\ splitPc = "checked"
    /\ ~balanceCheck.needsSplit
    /\ splitPc' = "order"
    /\ UNCHANGED <<splitView, balanceCheck, amountMicroSats, positionBalance>>
    /\ UNCHANGED nonDepositVars

\* window.confirm answers false
DeclineDeposit ==
    /\ splitPc = "checked"
    /\ balanceCheck.needsSplit
    /\ splitPc' = "declined"
    /\ UNCHANGED <<splitView, balanceCheck, amountMicroSats, positionBalance>>
    /\ UNCHANGED nonDepositVars

\* window.confirm answers true: splitPosition(splitAmount) calls
\* split-position, which the wallet broadcasts or the user cancels
SplitPosition ==
    /\ splitPc = "checked"
    /\ balanceCheck.needsSplit
    /\ amountMicroSats' = splitAmountMicroSats(splitView, balanceCheck)
    /\ \E broadcast \in BOOLEAN :
           splitPc' = IF broadcast THEN "sent" ELSE "cancelled"
    /\ UNCHANGED <<splitView, balanceCheck, positionBalance>>
    /\ UNCHANGED nonDepositVars

\* The deposit transaction is confirmed (the contract mints the amount of
\* each outcome) or fails
DepositConfirm ==
    /\ splitPc = "sent"
    /\ \E success \in BOOLEAN :
           IF success
           THEN /\ splitPc' = "confirmed"
                /\ positionBalance' = positionBalance + amountMicroSats
           ELSE /\ splitPc' = "failed"
                /\ UNCHANGED positionBalance
    /\ UNCHANGED <<splitView, balanceCheck, amountMicroSats>>
    /\ UNCHANGED nonDepositVars

NextDeposit ==
    \/ NoSplitNeeded
    \/ DeclineDeposit
    \/ SplitPosition
    \/ DepositConfirm

----------------------------------------------------------------------------
(* Specifications: one per component, the other components at rest *)

HelpersIdle ==
    /\ chain = [id \in WellFormedIds |-> 0]
    /\ netReply = [id \in WellFormedIds |-> "ok"]
    /\ call = [fn |-> "none", done |-> TRUE]

PollIdle ==
    /\ pollFn = "api"
    /\ pollPc = "idle"
    /\ maxWaitMs = 0
    /\ elapsed = 0
    /\ lastReply = NoReply
    /\ pollRet = NoReply

BookIdle ==
    /\ levels = <<>>
    /\ bookSide = "BUY"
    /\ lastUpsert = NoUpsert

CacheIdle ==
    /\ cache = <<>>
    /\ mutation = [settled |-> TRUE]
    /\ lastEvent = NoEvent

QueryIdle ==
    /\ queryEnabled = FALSE
    /\ queryPhase = "unmounted"
    /\ requests = <<>>
    /\ controllerRef = NoRequest
    /\ microtasks = <<>>
    /\ queryData = NoRequest
    /\ queryError = NoRequest
    /\ isLoading = FALSE
    /\ isRefetching = FALSE

WalletIdle ==
    /\ walletPhase = "idle"
    /\ storage = Null
    /\ adapter = Null
    /\ pendingConnects = 0
    /\ openFlows = 0
    /\ sinceDisconnect = FALSE
    /\ walletCall = NoWalletCall

HashIdle ==
    /\ hashFn = "none"
    /\ hashArgs = Null
    /\ hashClock = 0
    /\ hashLog = <<>>

ViewsIdle ==
    /\ route = "none"
    /\ orderPage = NewOrderPage
    /\ portfolio = NewPortfolio

ApiIdle ==
    /\ apiFn = "none"
    /\ apiOptions = NoOptions
    /\ apiSent = <<>>
    /\ apiRet = NotSettled

HooksIdle ==
    /\ hookName = "none"
    /\ hookMarketId = ""
    /\ hookMounted = FALSE
    /\ hookFetches = <<>>

SaltIdle ==
    /\ saltClock = -1
    /\ saltOrders = <<>>

SignIdle ==
    /\ signArgs = Null
    /\ signPc = "none"
    /\ signPromise = PromiseOf("pending", Null)
    /\ signOpened = 0

PreviewIdle == previewView = "none" /\ previewForm = Null /\ previewEdits = 0 /\ debounce = FALSE /\ previewRuns = <<>> /\ executionPreview = 0 /\ previewWriter = 0

DepositIdle == splitView = "none" /\ balanceCheck = [needsSplit |-> FALSE, requiredBalance |-> 0, currentBalance |-> 0] /\ splitPc = "none" /\ amountMicroSats = -1 /\ positionBalance = 0

InitSpecHelpers == InitHelpers /\ PollIdle /\ BookIdle /\ CacheIdle /\ QueryIdle /\ WalletIdle /\ HashIdle /\ ViewsIdle /\ ApiIdle /\ HooksIdle /\ SaltIdle /\ SignIdle /\ PreviewIdle /\ DepositIdle

SpecHelpers ==
    /\ InitSpecHelpers
    /\ [][NextHelpers]_vars

InitSpecPoll == InitPoll /\ HelpersIdle /\ BookIdle /\ CacheIdle /\ QueryIdle /\ WalletIdle /\ HashIdle /\ ViewsIdle /\ ApiIdle /\ HooksIdle /\ SaltIdle /\ SignIdle /\ PreviewIdle /\ DepositIdle

SpecPoll ==
    /\ InitSpecPoll
    /\ [][NextPoll]_vars

InitSpecBook == InitBook /\ HelpersIdle /\ PollIdle /\ CacheIdle /\ QueryIdle /\ WalletIdle /\ HashIdle /\ ViewsIdle /\ ApiIdle /\ HooksIdle /\ SaltIdle /\ SignIdle /\ PreviewIdle /\ DepositIdle

SpecBook ==
    /\ InitSpecBook
    /\ [][NextBook]_vars

InitSpecCache == InitCache /\ HelpersIdle /\ PollIdle /\ BookIdle /\ QueryIdle /\ WalletIdle /\ HashIdle /\ ViewsIdle /\ ApiIdle /\ HooksIdle /\ SaltIdle /\ SignIdle /\ PreviewIdle /\ DepositIdle

SpecCache ==
    /\ InitSpecCache
    /\ [][NextCache]_vars

InitSpecQuery == InitQuery /\ HelpersIdle /\ PollIdle /\ BookIdle /\ CacheIdle /\ WalletIdle /\ HashIdle /\ ViewsIdle /\ ApiIdle /\ HooksIdle /\ SaltIdle /\ SignIdle /\ PreviewIdle /\ DepositIdle

SpecQuery ==
    /\ InitSpecQuery
    /\ [][NextQuery]_vars

InitSpecWallet == InitWallet /\ HelpersIdle /\ PollIdle /\ BookIdle /\ CacheIdle /\ QueryIdle /\ HashIdle /\ ViewsIdle /\ ApiIdle /\ HooksIdle /\ SaltIdle /\ SignIdle /\ PreviewIdle /\ DepositIdle

SpecWallet ==
    /\ InitSpecWallet
    /\ [][NextWallet]_vars

InitSpecHash == InitHash /\ HelpersIdle /\ PollIdle /\ BookIdle /\ CacheIdle /\ QueryIdle /\ WalletIdle /\ ViewsIdle /\ ApiIdle /\ HooksIdle /\ SaltIdle /\ SignIdle /\ PreviewIdle /\ DepositIdle

SpecHash ==
    /\ InitSpecHash
    /\ [][NextHash]_vars

InitSpecViews == InitViews /\ HelpersIdle /\ PollIdle /\ BookIdle /\ CacheIdle /\ QueryIdle /\ WalletIdle /\ HashIdle /\ ApiIdle /\ HooksIdle /\ SaltIdle /\ SignIdle /\ PreviewIdle /\ DepositIdle

SpecViews ==
    /\ InitSpecViews
    /\ [][NextViews]_vars

InitSpecApi == InitApi /\ HelpersIdle /\ PollIdle /\ BookIdle /\ CacheIdle /\ QueryIdle /\ WalletIdle /\ HashIdle /\ ViewsIdle /\ HooksIdle /\ SaltIdle /\ SignIdle /\ PreviewIdle /\ DepositIdle

SpecApi ==
    /\ InitSpecApi
    /\ [][NextApi]_vars

InitSpecHooks == InitHooks /\ HelpersIdle /\ PollIdle /\ BookIdle /\ CacheIdle /\ QueryIdle /\ WalletIdle /\ HashIdle /\ ViewsIdle /\ ApiIdle /\ SaltIdle /\ SignIdle /\ PreviewIdle /\ DepositIdle

SpecHooks ==
    /\ InitSpecHooks
    /\ [][NextHooks]_vars

InitSpecSalt == InitSalt /\ HelpersIdle /\ PollIdle /\ BookIdle /\ CacheIdle /\ QueryIdle /\ WalletIdle /\ HashIdle /\ ViewsIdle /\ ApiIdle /\ HooksIdle /\ SignIdle /\ PreviewIdle /\ DepositIdle

SpecSalt ==
    /\ InitSpecSalt
    /\ [][NextSalt]_vars

InitSpecSign == InitSign /\ HelpersIdle /\ PollIdle /\ BookIdle /\ CacheIdle /\ QueryIdle /\ WalletIdle /\ HashIdle /\ ViewsIdle /\ ApiIdle /\ HooksIdle /\ SaltIdle /\ PreviewIdle /\ DepositIdle

SpecSign ==
    /\ InitSpecSign
    /\ [][NextSign]_vars

InitSpecPreview == InitPreview /\ HelpersIdle /\ PollIdle /\ BookIdle /\ CacheIdle /\ QueryIdle /\ WalletIdle /\ HashIdle /\ ViewsIdle /\ ApiIdle /\ HooksIdle /\ SaltIdle /\ SignIdle /\ DepositIdle

SpecPreview ==
    /\ InitSpecPreview
    /\ [][NextPreview]_vars

InitSpecDeposit == InitDeposit /\ HelpersIdle /\ PollIdle /\ BookIdle /\ CacheIdle /\ QueryIdle /\ WalletIdle /\ HashIdle /\ ViewsIdle /\ ApiIdle /\ HooksIdle /\ SaltIdle /\ SignIdle /\ PreviewIdle

SpecDeposit ==
    /\ InitSpecDeposit
    /\ [][NextDeposit]_vars

----------------------------------------------------------------------------
(* Properties of the balance helpers *)

\* What a balance read of `positionId` yields under the current network:
\* the on-chain balance when the id is well formed and the request is
\* answered, zero otherwise.
BalanceRead(positionId) ==
    IF positionId \in WellFormedIds /\ netReply[positionId] = "ok"
    THEN chain[positionId]
    ELSE 0

Min(a, b) == CHOOSE m \in {a, b} : m <= a /\ m <= b

SplitDone(fn) == call.done /\ call.fn = fn

\* The three facts of the split contract about a result r for size n, where
\* `balance` is the balance of the relevant position.
SplitContract(r, n, balance) ==
    /\ r.requiredBalance = FloorAtomic(n)
    /\ r.currentBalance = balance
    /\ r.needsSplit <=> (balance < FloorAtomic(n))

OppositeOrSame(p) ==
    IF p.side = "BUY"
    THEN (IF p.outcome = "yes" THEN p.noPositionId ELSE p.yesPositionId)
    ELSE (IF p.outcome = "yes" THEN p.yesPositionId ELSE p.noPositionId)

\* BUY yes, size 2, an answered read of a NO balance of 0
BuyYesExample ==
    /\ call.params.side = "BUY" /\ call.params.outcome = "yes"
    /\ call.params.size = 2 * SizeDen
    /\ call.params.noPositionId = "NO_ID"
    /\ chain["NO_ID"] = 0

BuyYesExampleResult ==
    /\ call.ret.ok
    /\ call.ret.val.needsSplit
    /\ call.ret.val.requiredBalance = 2 * AtomicUnits
    /\ call.ret.val.currentBalance = 0

C3_MergeableIsMin ==
    SplitDone("checkMergeablePairs")
    => /\ call.ret.ok
       /\ LET r == call.ret.val
          IN  /\ r.yesBalance = BalanceRead(call.params.yesPositionId)
              /\ r.noBalance = BalanceRead(call.params.noPositionId)
              /\ r.mergeableAmount = Min(r.yesBalance, r.noBalance)
              /\ r.mergeableAmount <= r.yesBalance
              /\ r.mergeableAmount <= r.noBalance
              /\ (r.yesBalance = 5 * AtomicUnits /\ r.noBalance = 3 * AtomicUnits)
                 => r.mergeableAmount = 3 * AtomicUnits

C3_Witness ==
    /\ SplitDone("checkMergeablePairs")
    /\ chain["YES_ID"] = 5 * AtomicUnits /\ chain["NO_ID"] = 3 * AtomicUnits
    /\ call.ret.ok
    /\ call.ret.val = [mergeableAmount |-> 3 * AtomicUnits,
                       yesBalance |-> 5 * AtomicUnits,
                       noBalance |-> 3 * AtomicUnits]

\* The network in which every failed read is an answered read of a zero
\* balance.
ZeroedNetwork ==
    [chain |-> [id \in WellFormedIds |->
                   IF netReply[id] = "ok" THEN chain[id] ELSE 0],
     reply |-> [id \in WellFormedIds |-> "ok"]]

ReadFails(positionId) ==
    positionId \notin WellFormedIds \/ netReply[positionId] # "ok"

\* C4: checkPositionBalance never raises: it returns 0 when the read fails
\* (transport error, non-2xx, undecodable result, malformed id) and the
\* balance read otherwise; checkIfNeedsSplit and checkMergeablePairs never
\* raise either and return what they return for a zero balance.
C4_SilentZero ==
    call.done
    => /\ call.ret.ok
       /\ call.fn = "checkPositionBalance"
          => call.ret.val = IF ReadFails(call.params) THEN 0
                            ELSE chain[call.params]
       /\ call.fn = "checkIfNeedsSplit"
          => call.ret = checkIfNeedsSplit(ZeroedNetwork, call.params).ret
       /\ call.fn = "checkIfNeedsSplitRpc"
          => call.ret = checkIfNeedsSplitRpc(ZeroedNetwork, call.params).ret
       /\ call.fn = "checkMergeablePairs"
          => call.ret = checkMergeablePairs(ZeroedNetwork, call.params).ret

\* A non-2xx answer to the read of a non-zero balance gives 0.
C4_Witness ==
    /\ SplitDone("checkPositionBalance")
    /\ call.params = "YES_ID"
    /\ netReply["YES_ID"] = "non2xx"
    /\ chain["YES_ID"] = 5 * AtomicUnits
    /\ call.ret = Ok(0)

----------------------------------------------------------------------------
(* Properties of the transaction-confirmation poll *)

PollEnded == pollPc \in {"returned", "thrown"}

IsTerminal(reply) ==
    reply.kind = "json" /\ reply.status \in TerminalStatuses

\* The latest time at which the loop condition is evaluated with the
\* maximum wait elapsed, when every status query settles within MaxLatency.
PollDeadline == maxWaitMs + MaxLatency + pollInterval + LatencyUnit

\* C5 as stated: whatever the status queries do (answer pending or
\* not-found, fail, or not answer), the poll of a transaction that reaches
\* no terminal status raises the timeout once the maximum wait has elapsed:
\* it is never still running after the deadline.
C5_Original ==
    pollPc \in {"test", "await", "sleep"} => elapsed < PollDeadline

\* C6: the poll returns success = TRUE only on a 'success' status, returns
\* success = FALSE with the status only on one of the two abort statuses,
\* and otherwise ends only by throwing the timeout error, once the maximum
\* wait has elapsed; any other answer, and a failed query, leads to the
\* setTimeout of pollInterval and back to the loop condition.
C6_Outcome ==
    /\ pollPc = "returned"
       => /\ pollRet.ok
          /\ IsTerminal(lastReply)
          /\ pollRet.val.status = lastReply.status
          /\ pollRet.val.success <=> (lastReply.status = "success")
    /\ pollPc = "thrown"
       => /\ pollRet = Throw(TimeoutError)
          /\ elapsed >= maxWaitMs
          /\ ~IsTerminal(lastReply)
    /\ pollPc = "sleep" => ~IsTerminal(lastReply)
    /\ pollPc \in {"test", "await", "sleep"} => pollRet = NoReply

C6_Step ==
    /\ pollPc = "await" /\ pollPc' # "await"
       => pollPc' = IF IsTerminal(lastReply') THEN "returned" ELSE "sleep"
    /\ pollPc = "sleep" /\ pollPc' # "sleep"
       => pollPc' = "test" /\ elapsed' >= elapsed + pollInterval
    /\ pollPc = "test" /\ pollPc' # "test"
       => pollPc' = IF elapsed < maxWaitMs THEN "await" ELSE "thrown"
    /\ PollEnded => UNCHANGED pollVars

----------------------------------------------------------------------------
(* Properties of the order-book level upsert *)

\* Bids strictly descending by price, asks strictly ascending
StrictlySorted(side, ls) ==
    \A i, j \in 1..Len(ls) :
        i < j => IF side = "BUY" THEN ls[i].price > ls[j].price
                                 ELSE ls[i].price < ls[j].price

LevelsAt(ls, price) == {i \in 1..Len(ls) : ls[i].price = price}

C8_UpsertOneLevel ==
    lastUpsert.called
    => LET in == lastUpsert.input
           out == lastUpsert.output
           p == lastUpsert.price
           d == lastUpsert.sizeDelta
       IN  /\ Cardinality(LevelsAt(out, p)) = 1
           /\ \A o \in LevelsAt(out, p) :
                 IF LevelsAt(in, p) # {}
                 THEN /\ Len(out) = Len(in)
                      /\ \A i \in LevelsAt(in, p) :
                            /\ out[o].size = in[i].size + d
                            /\ out[o].orderCount
                                   = Present(Coalesce(in[i].orderCount, 0) + 1)
                 ELSE /\ Len(out) = Len(in) + 1
                      /\ out[o].size = d
                      /\ out[o].orderCount = Present(1)
           /\ \A i \in 1..Len(in) :
                 in[i].price # p
                 => \E o \in 1..Len(out) :
                        /\ out[o].price = in[i].price
                        /\ out[o].size = in[i].size
           /\ SumSizes(out) = SumSizes(in) + d
           /\ lastUpsert.inputAfter = in

\* An existing level with one order incremented, next to another level.
C8_Witness ==
    /\ lastUpsert.called
    /\ Len(lastUpsert.input) = 2
    /\ Len(lastUpsert.output) = 2
    /\ \E i \in LevelsAt(lastUpsert.input, lastUpsert.price) :
           /\ lastUpsert.input[i].orderCount = Present(1)
           /\ \E o \in LevelsAt(lastUpsert.output, lastUpsert.price) :
                  /\ lastUpsert.output[o].orderCount = Present(2)
                  /\ lastUpsert.output[o].size
                         = lastUpsert.input[i].size + lastUpsert.sizeDelta

----------------------------------------------------------------------------
(* The cache after a smart-order placement *)

PlacedFor(m) == lastEvent.type = "onSuccess" /\ lastEvent.marketId = m

\* The queries by the hook that caches them
IsOrderbookQuery(k, m) ==
    /\ Len(k) \in {2, 3}
    /\ k[1] = "orderbook"
    /\ k[2] = m
    /\ Len(k) = 3 => k[3] # "trades"

IsTradesQuery(k, m) ==
    /\ Len(k) = 4
    /\ k[1] = "orderbook"
    /\ k[2] = m
    /\ k[3] = "trades"

IsStatsQuery(k, m) == k = <<"markets", "detail", m, "stats">>

IsQueryOf(k, m) ==
    \/ Len(k) >= 2 /\ k[1] = "orderbook" /\ k[2] = m
    \/ Len(k) >= 3 /\ k[1] = "markets" /\ k[2] = "detail" /\ k[3] = m

PlacementInvalidates(k, m) ==
    IsOrderbookQuery(k, m) \/ IsTradesQuery(k, m) \/ IsStatsQuery(k, m)

\* C9: after a successful smart-order placement for market m (either version
\* of the hook), every cached order-book query of m (the position-specific
\* ones included), m's stats query and m's trades query is invalidated, and
\* the invalidation mark of every query of another market is as it was.
C9_PlacementInvalidation ==
    \A m \in Markets :
        PlacedFor(m) =>
            \A k \in QueryKeys :
                /\ (cache[k].cached /\ PlacementInvalidates(k, m))
                       => cache[k].invalidated
                /\ (\E o \in Markets \ {m} : IsQueryOf(k, o))
                       => cache[k] = lastEvent.before[k]

\* The older hook has run for m: m's position-specific order book, trades and
\* stats were cached and fresh and are invalidated now; the other market's
\* order book is cached and still fresh.
C9_Witness ==
    \E m \in Markets, o \in Markets :
        /\ o # m
        /\ PlacedFor(m)
        /\ lastEvent.hook = "orders"
        /\ \A k \in {orderbookKeysMarket(m) \o <<"YES_ID">>,
                     orderbookKeysTrades(m) \o <<"20">>,
                     marketKeysStats(m)} :
               /\ lastEvent.before[k].cached
               /\ ~lastEvent.before[k].invalidated
               /\ cache[k].invalidated
        /\ cache[orderbookKeysMarket(o)].cached
        /\ ~cache[orderbookKeysMarket(o)].invalidated

ListOf(data, bookKey, list) ==
    IF list = "bids" THEN data.orderbooks[1][bookKey].bids
                     ELSE data.orderbooks[1][bookKey].asks

SizeAt(ls, price) ==
    IF \E i \in 1..Len(ls) : ls[i].price = price
    THEN ls[CHOOSE i \in 1..Len(ls) : ls[i].price = price].size
    ELSE 0

\* The book the order rests in is in the cached data
HoldsBookFor(entry, order) ==
    /\ entry.cached
    /\ entry.data.orderbooks # Absent
    /\ (IF (order.side = "BUY") = (order.outcome = "yes") THEN "no" ELSE "yes")
           \in DOMAIN entry.data.orderbooks[1]

\* One list of one book has the order's size added at the order's price; the
\* other lists are as they were.
UpdatedWithLevel(old, new, order) ==
    /\ new.orderbooks # Absent
    /\ DOMAIN new.orderbooks[1] = DOMAIN old.orderbooks[1]
    /\ \E b \in DOMAIN old.orderbooks[1], l \in {"bids", "asks"} :
           /\ SizeAt(ListOf(new, b, l), order.price)
                  = SizeAt(ListOf(old, b, l), order.price) + order.size
           /\ \A b2 \in DOMAIN old.orderbooks[1], l2 \in {"bids", "asks"} :
                  <<b2, l2>> # <<b, l>>
                      => ListOf(new, b2, l2) = ListOf(old, b2, l2)

PlacementInvalidations(m) ==
    <<InvalidateOp(orderbookKeysMarket(m)),
      InvalidateOp(marketKeysStats(m)),
      InvalidateOp(orderbookKeysTrades(m))>>

\* C10: after the onSuccess of orderbook.ts for market m: when the response
\* carries a resting order and m's cached order book holds the book the
\* order rests in, the cached data was written with the order's price level
\* and the three invalidations followed the write, so the written query is
\* invalidated; when the response carries no order, no write was attempted;
\* when the cached data lacks the order's book, the data is as it was;
\* when m's order book is not cached, nothing was written and no entry was
\* created; in every case the three invalidations were made and the cached
\* data is otherwise as it was.
C10_OptimisticThenInvalidate ==
    \A m \in Markets :
        (PlacedFor(m) /\ lastEvent.hook = "orderbook") =>
            LET key == orderbookKeysMarket(m)
                old == lastEvent.before[key]
                new == cache[key]
                order == lastEvent.data.order
                log == lastEvent.log
            IN  /\ (order # Absent /\ HoldsBookFor(old, order[1])) =>
                       /\ log = <<SetQueryDataOp(key, TRUE)>>
                                    \o PlacementInvalidations(m)
                       /\ UpdatedWithLevel(old.data, new.data, order[1])
                       /\ new.cached /\ new.invalidated
                /\ order = Absent =>
                       /\ log = PlacementInvalidations(m)
                       /\ new.data = old.data
                /\ (order # Absent /\ ~HoldsBookFor(old, order[1])) =>
                       new.data = old.data
                /\ ~old.cached =>
                       /\ new = old
                       /\ \A i \in 1..Len(log) : ~log[i].wrote
                       /\ SubSeq(log, Len(log) - 2, Len(log))
                              = PlacementInvalidations(m)
                /\ \A k \in QueryKeys :
                       (cache[k].cached /\ PlacementInvalidates(k, m))
                           => cache[k].invalidated
                /\ \A k \in QueryKeys \ {key} :
                       cache[k].data = lastEvent.before[k].data

\* A resting order was written into a cached, fresh order book, which is
\* invalidated now.
C10_Witness ==
    \E m \in Markets :
        /\ PlacedFor(m)
        /\ lastEvent.hook = "orderbook"
        /\ lastEvent.data.order # Absent
        /\ HoldsBookFor(lastEvent.before[orderbookKeysMarket(m)],
                        lastEvent.data.order[1])
        /\ ~lastEvent.before[orderbookKeysMarket(m)].invalidated
        /\ lastEvent.log[1] = SetQueryDataOp(orderbookKeysMarket(m), TRUE)
        /\ cache[orderbookKeysMarket(m)].data
               # lastEvent.before[orderbookKeysMarket(m)].data
        /\ cache[orderbookKeysMarket(m)].invalidated

----------------------------------------------------------------------------
(* useApiQuery: cancel and supersede *)

LatestResolved ==
    IF \E i \in 1..Len(requests) : requests[i].status = "resolved"
    THEN CHOOSE i \in 1..Len(requests) :
             /\ requests[i].status = "resolved"
             /\ \A j \in (i + 1)..Len(requests) :
                    requests[j].status # "resolved"
    ELSE NoRequest

\* C11: a new fetch and an unmount abort the request in flight first, so at
\* most one request is in flight, and none after the unmount; the data held
\* by a mounted hook is the response of the latest started request that has
\* completed.
C11_Original ==
    /\ Cardinality(InFlight) <= 1
    /\ queryPhase = "unmounted" => InFlight = {}
    /\ queryPhase = "mounted" => queryData = LatestResolved

----------------------------------------------------------------------------
(* Wallet adapter *)

ConnectedCall(op) == walletCall.op = op /\ walletCall.before.isConnectedState

DisconnectedCall(op) ==
    walletCall.op = op /\ ~walletCall.before.isConnectedState

GuardedOps == {"getAccount", "signMessage", "callContract"}

C13_FailFastDisconnected ==
    \A op \in GuardedOps :
        DisconnectedCall(op) =>
            /\ walletCall.ret = NotConnected
            /\ walletCall.sent = <<>>
            /\ adapter = walletCall.before

\* getAccount was called while disconnected, after a disconnectWallet
C13_Witness ==
    /\ DisconnectedCall("getAccount")
    /\ walletCall.ret = NotConnected
    /\ sinceDisconnect

\* C14: from a disconnectWallet until a connect succeeds, the connection flag
\* is false and the account data is null, every getAccount, signMessage and
\* callContract rejects with 'Wallet not connected' and sends nothing; right
\* after disconnectWallet the error is null and the library's session is
\* cleared.
C14_DisconnectClears ==
    sinceDisconnect =>
        /\ ~adapter.isConnectedState
        /\ adapter.userData = Null
        /\ storage = Null
        /\ walletCall.op = "disconnectWallet" => adapter.error = Null
        /\ walletCall.op \in GuardedOps =>
               /\ walletCall.ret = NotConnected
               /\ walletCall.sent = <<>>

\* disconnectWallet was called while connected, with an error displayed
C14_Witness ==
    /\ walletCall.op = "disconnectWallet"
    /\ walletCall.before.isConnectedState
    /\ walletCall.before.userData \in Accounts
    /\ walletCall.before.error # Null
    /\ sinceDisconnect

\* C15: callContract while connected waits for the wallet, unless opening the
\* flow throws, which rejects with that error; the approval resolves with the
\* transaction id the wallet reported, the cancellation rejects with 'User
\* cancelled transaction'; nothing but an approval resolves, and the loading
\* flag is false after each settlement.
C15_CallContractSettles ==
    /\ ConnectedCall("callContract") =>
           \/ walletCall.ret = Awaiting /\ openFlows > 0
           \/ /\ walletCall.ret = Throw("open failed")
              /\ ~adapter.isLoading
    /\ walletCall.op = "callContract.approved" =>
           /\ walletCall.ret = Ok([txid |-> walletCall.sent[1]])
           /\ ~adapter.isLoading
    /\ walletCall.op = "callContract.cancelled" =>
           /\ walletCall.ret = UserCancelled
           /\ ~adapter.isLoading
    /\ walletCall.op \in {"callContract", "callContract.cancelled"} =>
           ~walletCall.ret.ok

\* The user cancelled an open approval flow
C15_Witness ==
    /\ walletCall.op = "callContract.cancelled"
    /\ walletCall.before.isLoading
    /\ walletCall.ret = UserCancelled

----------------------------------------------------------------------------
(* Order hashing *)

HashCalls == 1..Len(hashLog)

DecodesTo32Bytes(id) == orderHexToBytes(id).len = 32

ValidHashInput(a) ==
    /\ IsNumericString(a.salt)
    /\ DecodesTo32Bytes(a.makerPositionId)
    /\ DecodesTo32Bytes(a.takerPositionId)

HashDeterministic ==
    \A i, j \in HashCalls : hashLog[i].ret = hashLog[j].ret

PreimageValues(digest) == [k \in 1..Len(digest.of) |-> digest.of[k].val]

ClarityLayout(digest) ==
    /\ digest.alg = "SHA-256"
    /\ PreimageValues(digest)
           = <<hashArgs.maker, hashArgs.makerPositionId.tag,
               hashArgs.takerPositionId.tag, hashArgs.makerAmount,
               hashArgs.takerAmount, BigInt(hashArgs.salt),
               hashArgs.expiration>>

----------------------------------------------------------------------------
(* Properties of the views                                                 *)

Made(p, name) == \E i \in 1..Len(p.calls) : p.calls[i] = name

\* Every call named b was made after a call named a.
MadeAfter(p, a, b) ==
    \A j \in 1..Len(p.calls) :
        p.calls[j] = b => \E i \in 1..(j - 1) : p.calls[i] = a

\* The form has a validation error: no maker address, a size that is not
\* a number, or a LIMIT order whose price is missing or not a number.
InvalidOrder(p) ==
    \/ p.maker = ""
    \/ Number(p.size).nan
    \/ p.orderType = "LIMIT" /\ (p.price = "" \/ Number(p.price).nan)

\* onSubmitOrder ran up to its first await or return.
Submitted == route \in OrderPages /\ orderPage.pc = "idle" /\ orderPage'.pc # "idle"

\* C18: when the maker address is missing, the size is not a valid number,
\* or a LIMIT order has a missing or non-numeric price, onSubmitOrder sets
\* an error message and returns without a balance read, a wallet request or
\* an order request.
C18_Original ==
    [][Submitted /\ InvalidOrder(orderPage) =>
           /\ orderPage'.errorMessage # NoMessage
           /\ orderPage'.calls = <<>>
           /\ orderPage'.pc = "done"]_vars

C20_Original ==
    [][/\ orderPage'.caught # orderPage.caught =>
              orderPage'.errorMessage # NoMessage
       /\ portfolio'.caught # portfolio.caught =>
              portfolio'.mergeMessage # NoMessage]_vars

----------------------------------------------------------------------------
(* Properties of the API client                                            *)

Answered == apiRet.settled /\ apiRet.answer.ok

\* The rejection of a non-2xx response: its body text, or the status
\* message when the body is empty.
RejectsNon2xx ==
    Answered /\ ~ResponseOk(apiRet.answer.val) =>
        apiRet.ret = Throw(IF apiRet.answer.val.body # ""
                           THEN <<apiRet.answer.val.body>>
                           ELSE StatusMessage(apiRet.answer.val.status))

\* One request per call, sent before the call settles.
OneRequest == Len(apiSent) <= 1 /\ (apiRet.settled => Len(apiSent) = 1)

\* C21 as stated: a non-2xx response rejects with the body text or the
\* status message, a 2xx response returns the parsed JSON body, or
\* undefined with skipJson, and one request is sent per call.
C21_Original ==
    /\ RejectsNon2xx
    /\ OneRequest
    /\ Answered /\ ResponseOk(apiRet.answer.val) =>
           apiRet.ret = Ok(IF apiOptions.skipJson
                           THEN Undefined
                           ELSE JsonValue(apiRet.answer.val.body))

\* C21: a non-2xx response rejects with the body text or the status
\* message; a 2xx response returns undefined with skipJson, otherwise the
\* parsed body when the body is JSON text and a rejection (the parser's
\* error) when it is not; a transport failure rejects; one request is sent
\* per call.
C21_ApiClient ==
    /\ RejectsNon2xx
    /\ OneRequest
    /\ apiRet.settled /\ ~apiRet.answer.ok => ~apiRet.ret.ok
    /\ Answered /\ ResponseOk(apiRet.answer.val) =>
           apiRet.ret = IF apiOptions.skipJson
                        THEN Ok(Undefined)
                        ELSE IF apiRet.answer.val.body = JsonText
                        THEN Ok(JsonValue(JsonText))
                        ELSE Throw(<<"SyntaxError">>)

\* A 2xx response with a JSON body was parsed and returned
C21_Witness ==
    /\ Answered
    /\ ResponseOk(apiRet.answer.val)
    /\ ~apiOptions.skipJson
    /\ apiRet.ret = Ok(JsonValue(JsonText))

\* C22: the headers of the request sent contain Content-Type:
\* application/json together with the headers the caller supplied.
C22_Original ==
    \A i \in 1..Len(apiSent) :
        /\ JsonContentType \in apiSent[i].headers
        /\ apiOptions.headers.own =>
               \A h \in apiOptions.headers.val :
                   h.name # "Content-Type" => h \in apiSent[i].headers

----------------------------------------------------------------------------
(* Properties of disabled queries                                          *)

\* A component uses useApiQuery or one of the query hooks.
InitQueries ==
    \/ InitSpecQuery
    \/ InitSpecHooks

NextQueries ==
    \/ NextQuery
    \/ NextHooks

SpecQueries ==
    /\ InitQueries
    /\ [][NextQueries]_vars

\* C23: a hook that takes a market id makes no request while the id is the
\* empty string, and useApiQuery with enabled = false makes no request and
\* reports isLoading = false.
C23_DisabledQueries ==
    /\ [](hookName \in MarketHooks =>
              \A i \in 1..Len(hookFetches) : hookFetches[i].marketId # "")
    /\ [][(hookName \in MarketHooks /\ hookMarketId' = "") =>
              hookFetches' = hookFetches]_vars
    /\ [](~queryEnabled => requests = <<>> /\ ~isLoading)

\* A mounted hook that has fetched a market and is now called with ''
C23_Witness ==
    /\ hookName \in MarketHooks
    /\ hookMounted
    /\ hookMarketId = ""
    /\ hookFetches # <<>>

----------------------------------------------------------------------------
(* Properties of the salt                                                  *)

\* C24: any two calls of generateSalt return different salts, so no two
\* orders of the client carry the same salt.
C24_Original ==
    \A i, j \in 1..Len(saltOrders) :
        i # j => saltOrders[i].salt # saltOrders[j].salt

----------------------------------------------------------------------------
(* Properties of the optimistic update's frame                             *)

\* The routing rule: a BUY of yes or a SELL of no goes to the NO book.
RoutedBook(order) ==
    IF \/ order.side = "BUY" /\ order.outcome = "yes"
       \/ order.side = "SELL" /\ order.outcome = "no"
    THEN "no" ELSE "yes"

RoutedList(order) == IF order.side = "BUY" THEN "bids" ELSE "asks"

\* The hook of orderbook.ts placed a yes or no order for market m whose
\* book is in the cached data.
PlacedInBook(m) ==
    /\ PlacedFor(m)
    /\ lastEvent.hook = "orderbook"
    /\ lastEvent.data.order # Absent
    /\ lastEvent.data.order[1].outcome \in Outcomes
    /\ lastEvent.before[orderbookKeysMarket(m)].cached
    /\ lastEvent.before[orderbookKeysMarket(m)].data.orderbooks # Absent
    /\ RoutedBook(lastEvent.data.order[1])
           \in DOMAIN lastEvent.before[orderbookKeysMarket(m)].data.orderbooks[1]

\* C25: the optimistic update changes the bids (BUY) or asks (SELL) of the
\* book the routing rule names, by the order's size at the order's price,
\* and leaves the other list of that book and the lists of the other book
\* as they were.
C25_UpdateFrame ==
    \A m \in Markets :
        PlacedInBook(m) =>
            LET old == lastEvent.before[orderbookKeysMarket(m)].data
                new == cache[orderbookKeysMarket(m)].data
                order == lastEvent.data.order[1]
                book == RoutedBook(order)
                list == RoutedList(order)
            IN  /\ DOMAIN new.orderbooks[1] = DOMAIN old.orderbooks[1]
                /\ \A b \in DOMAIN old.orderbooks[1], l \in {"bids", "asks"} :
                       <<b, l>> # <<book, list>> =>
                           ListOf(new, b, l) = ListOf(old, b, l)
                /\ SizeAt(ListOf(new, book, list), order.price)
                       = SizeAt(ListOf(old, book, list), order.price)
                             + order.size
                /\ Len(ListOf(new, book, list))
                       = Len(ListOf(old, book, list))
                             + (IF SizeAt(ListOf(old, book, list),
                                          order.price) = 0 THEN 1 ELSE 0)
                /\ \A p \in Prices \ {order.price} :
                       SizeAt(ListOf(new, book, list), p)
                           = SizeAt(ListOf(old, book, list), p)

\* A BUY of yes was added to the bids of a cached NO book next to a YES
\* book with levels of its own
C25_Witness ==
    \E m \in Markets :
        /\ PlacedInBook(m)
        /\ lastEvent.data.order[1].side = "BUY"
        /\ lastEvent.data.order[1].outcome = "yes"
        /\ "yes" \in DOMAIN cache[orderbookKeysMarket(m)].data.orderbooks[1]
        /\ cache[orderbookKeysMarket(m)].data.orderbooks[1]["yes"] = QuotedBook
        /\ cache[orderbookKeysMarket(m)].data.orderbooks[1]["no"].bids
               # lastEvent.before[orderbookKeysMarket(m)].data.orderbooks[1]["no"].bids

----------------------------------------------------------------------------
(* useApiQuery: live requests                                              *)

\* C26: at most one request that has not been aborted is in flight, and
\* none once the component has unmounted.
C26_Original ==
    /\ Cardinality(InFlight) <= 1
    /\ queryPhase = "unmounted" => InFlight = {}

----------------------------------------------------------------------------
(* Properties of signOrder                                                 *)

\* C27: once the hash computation has raised a validation error the promise
\* of signOrder is rejected and no signature request was opened; once the
\* user has answered or the request failed to open it is settled.
C27_Original ==
    /\ signPc = "threw" =>
           signPromise.state = "rejected" /\ signOpened = 0
    /\ signPc = "done" => signPromise.state # "pending"

----------------------------------------------------------------------------
(* Wallet adapter: state invariant                                         *)

\* C28: the account data of the adapter is non-null only if its connection
\* flag is true.
C28_AccountOnlyWhenConnected ==
    adapter.userData # Null => adapter.isConnectedState

\* A connect has just stored the account of the user's choice
C28_Witness ==
    /\ walletCall.op = "connectWallet.resolved"
    /\ walletCall.before.userData = Null
    /\ adapter.userData # Null
    /\ adapter.isConnectedState

----------------------------------------------------------------------------
(* Market pages: the execution preview and the latest inputs               *)

\* The user has stopped editing and every preview response has arrived
PreviewQuiet == previewView # "none" /\ ~debounce /\ PendingRuns = {}

LatestRun == previewRuns[Len(previewRuns)]

\* C29: once the form is at rest and no preview response is outstanding,
\* the stored preview is the plan returned for the latest inputs (null when
\* that run sent no request or its request failed), and the run that wrote
\* the preview last is not older than a run that has also written it.
C29_Original ==
    /\ PreviewQuiet =>
           IF LatestRun.status = "ok"
           THEN /\ executionPreview # NoPlan
                /\ previewRuns[executionPreview].body = LatestRun.body
           ELSE executionPreview = NoPlan
    /\ \A j \in 1..Len(previewRuns) :
           j > previewWriter => previewRuns[j].status = "pending"

----------------------------------------------------------------------------
(* Market pages: the deposit and the shortfall                             *)

\* C30: when the split check reports needsSplit, the amount sent to
\* split-position is at least requiredBalance - currentBalance, and once the
\* deposit is confirmed the balance of the checked position is at least
\* requiredBalance.
C30_Original ==
    /\ (balanceCheck.needsSplit /\ amountMicroSats # NotSent) =>
           amountMicroSats >=
               balanceCheck.requiredBalance - balanceCheck.currentBalance
    /\ splitPc = "confirmed" =>
           positionBalance >= balanceCheck.requiredBalance

====
